---- MODULE Spec2Model ----
(***************************************************************************)
(* h173k-wallet: the escrow ("MAD contract") lifecycle engine with its     *)
(* localStorage replica (useEscrowProgram) and the automatic SOL           *)
(* replenishment wrapper (useSwap.withAutoSOL).                            *)
(*                                                                         *)
(* The specifications of the module:                                       *)
(*   Spec      the escrow engine of every wallet against one ledger        *)
(*   SpecAuto  one withAutoSOL call, step by step                          *)
(*   SpecRace  the engine's calls while a fetchAllUserOffers is awaiting   *)
(*   SpecFind  findOfferByCode over ledgers of several offers              *)
(*   SpecSwap  the pool quotes of useSwap while others trade with the pool *)
(*   SpecSigner the session signer: unlock, lock, auto-lock, signing       *)
(*   SpecPin   the PIN of auth.js: set up, verify, lockout, the clock      *)
(*                                                                         *)
(* The on-chain program is not part of the repository's sources (only its  *)
(* IDL and its callers are); the Program* operators model it from the      *)
(* specification, sections 3 and 4.1.                                      *)
(***************************************************************************)
EXTENDS Integers, FiniteSets, Sequences, TLC

VARIABLES
  offers,               \* ledger: address -> offer account (absent: no account)
  buyerIndex,           \* ledger: wallet -> buyer index account
  sellerIndex,          \* ledger: wallet -> seller index account
  cache,                \* localStorage h173k_offers_cache: wallet -> address -> entry
  sellerIndexExistsRef, \* useRef of the wallet's hook instance (per session)
  last,                 \* what the last engine call did (observation only)
  auto,                 \* the withAutoSOL call in flight (SpecAuto)
  inFlight,             \* the fetchAllUserOffers call in flight (SpecRace)
  lookup,               \* the last findOfferByCode call (SpecFind)
  swap,                 \* the pool and the useSwap hook's quotes (SpecSwap)
  session,              \* the session signer and the stored seed (SpecSigner)
  pinAuth               \* the PIN store of auth.js and the clock (SpecPin)

\* what the escrow engine's operations never touch
sideVars == <<lookup, swap, session, pinAuth>>
vars == <<offers, buyerIndex, sellerIndex, cache, sellerIndexExistsRef, last, auto, inFlight, sideVars>>
ledgerVars == <<offers, buyerIndex, sellerIndex>>
escrowVars == <<offers, buyerIndex, sellerIndex, cache, sellerIndexExistsRef, last, inFlight, sideVars>>

(***************************************************************************)
(* Bounds of the model.                                                    *)
(***************************************************************************)
\* nonces a buyer index hands out before Create is no longer enabled
MaxNonce == 1
\* offers created on the ledger over a run
MaxOffers == 1
\* principal amounts, in whole tokens
MaxAmount == 1

Wallets == {"A", "B"}
Codes == {"k1", "k2"}
Amounts == 1..MaxAmount
Nonces == 0..(MaxNonce - 1)

(***************************************************************************)
(* Address derivation and commitment.  findProgramAddressSync and sha256   *)
(* are library code; they are modelled as injective functions of their     *)
(* seeds, which is what the callers rely on.                                *)
(***************************************************************************)
getOfferPDA(buyerPubkey, nonce) == <<"offer", buyerPubkey, nonce>>

Addrs == {getOfferPDA(w, n) : w \in Wallets, n \in Nonces}

\* code.trim(): the model's codes carry no surrounding blanks
hashCode(code, offerPubkey) == <<offerPubkey, code>>

(***************************************************************************)
(* OfferStatus (constants) and parseOfferStatus (utils).  A status value   *)
(* is a JavaScript number or the Anchor decoding of the on-chain enum, an  *)
(* object with one variant key.                                            *)
(***************************************************************************)
PendingSeller == 0
Locked == 1
BuyerConfirmed == 2
SellerConfirmed == 3
Completed == 4
Burned == 5
Cancelled == 6

JsNumber(n) == [type |-> "number", value |-> n]
AnchorEnum(variant) == [type |-> "object", key |-> variant]

parseOfferStatus(status) ==
  IF status.type = "number" THEN status.value
  ELSE IF status.key = "pendingSeller" THEN PendingSeller
  ELSE IF status.key = "locked" THEN Locked
  ELSE IF status.key = "buyerConfirmed" THEN BuyerConfirmed
  ELSE IF status.key = "sellerConfirmed" THEN SellerConfirmed
  ELSE IF status.key = "completed" THEN Completed
  ELSE IF status.key = "burned" THEN Burned
  ELSE IF status.key = "cancelled" THEN Cancelled
  ELSE PendingSeller

isTerminalStatus(status) ==
  LET statusValue == parseOfferStatus(status)
  IN  statusValue = Completed \/ statusValue = Burned \/ statusValue = Cancelled

(***************************************************************************)
(* The ledger program, from the specification (sections 3, 4.1, 7).  The   *)
(* ledger is a record of three maps; an account that does not exist is     *)
(* absent from the domain of offers.                                       *)
(***************************************************************************)
\* PublicKey.default, the "unset" seller of an offer not yet accepted
DefaultKey == "11111111111111111111111111111111"

NoIndex == [exists |-> FALSE, activeOffers |-> {}, nextNonce |-> 0]

Ok == "ok"
Outcome(err, l) == [err |-> err, ledger |-> l]

ProgramInitializeBuyerIndex(l, buyer) ==
  IF l.buyerIndex[buyer].exists THEN Outcome("AccountInUse", l)
  ELSE Outcome(Ok, [l EXCEPT !.buyerIndex[buyer].exists = TRUE])

ProgramInitializeSellerIndex(l, seller) ==
  IF l.sellerIndex[seller].exists THEN Outcome("AccountInUse", l)
  ELSE Outcome(Ok, [l EXCEPT !.sellerIndex[seller].exists = TRUE])

ProgramCreateOffer(l, buyer, offer, amount, codeHash) ==
  LET idx == l.buyerIndex[buyer]
  IN  IF ~idx.exists THEN Outcome("AccountNotInitialized", l)
      ELSE IF offer # getOfferPDA(buyer, idx.nextNonce) THEN Outcome("ConstraintSeeds", l)
      ELSE IF amount = 0 THEN Outcome("ZeroAmount", l)
      ELSE Outcome(Ok,
        [l EXCEPT
           !.offers = (offer :>
              [buyer |-> buyer, seller |-> DefaultKey, amount |-> amount,
               buyerDeposit |-> 2 * amount, sellerDeposit |-> 0,
               codeHash |-> codeHash, status |-> "pendingSeller",
               nonce |-> idx.nextNonce, buyerConfirmed |-> FALSE,
               sellerConfirmed |-> FALSE, isClosed |-> FALSE]) @@ @,
           !.buyerIndex[buyer].activeOffers = @ \cup {offer},
           !.buyerIndex[buyer].nextNonce = @ + 1])

ProgramAcceptOffer(l, seller, offer, code) ==
  IF offer \notin DOMAIN l.offers \/ ~l.sellerIndex[seller].exists
    THEN Outcome("AccountNotInitialized", l)
  ELSE LET acc == l.offers[offer]
       IN  IF acc.status # "pendingSeller" THEN Outcome("InvalidState", l)
           ELSE IF acc.buyer = seller THEN Outcome("Unauthorized", l)
           ELSE IF hashCode(code, offer) # acc.codeHash THEN Outcome("InvalidCode", l)
           ELSE Outcome(Ok,
             [l EXCEPT
                !.offers[offer].seller = seller,
                !.offers[offer].sellerDeposit = acc.amount,
                !.offers[offer].status = "locked",
                !.sellerIndex[seller].activeOffers = @ \cup {offer}])

ProgramCancelOffer(l, signer, offer) ==
  IF offer \notin DOMAIN l.offers THEN Outcome("AccountNotInitialized", l)
  ELSE LET acc == l.offers[offer]
       IN  IF acc.status # "pendingSeller" THEN Outcome("InvalidState", l)
           ELSE IF acc.buyer # signer THEN Outcome("Unauthorized", l)
           ELSE Outcome(Ok,
             [l EXCEPT
                !.offers[offer].status = "cancelled",
                !.offers[offer].buyerDeposit = 0,
                !.buyerIndex[acc.buyer].activeOffers = @ \ {offer}])

InProgress(status) == status \in {"locked", "buyerConfirmed", "sellerConfirmed"}

\* the offer leaves both indexes when it reaches a terminal status
Unindex(l, offer) ==
  LET acc == l.offers[offer]
  IN  [l EXCEPT
         !.buyerIndex[acc.buyer].activeOffers = @ \ {offer},
         !.sellerIndex[acc.seller].activeOffers = @ \ {offer}]

ProgramConfirmCompletion(l, user, offer) ==
  IF offer \notin DOMAIN l.offers THEN Outcome("AccountNotInitialized", l)
  ELSE LET acc == l.offers[offer]
       IN  IF ~InProgress(acc.status) THEN Outcome("InvalidState", l)
           ELSE IF user # acc.buyer /\ user # acc.seller THEN Outcome("Unauthorized", l)
           ELSE IF ((user = acc.buyer /\ acc.buyerConfirmed)
                    \/ (user = acc.seller /\ acc.sellerConfirmed))
             THEN Outcome("AlreadyConfirmed", l)
           ELSE IF ((user = acc.buyer /\ acc.sellerConfirmed)
                    \/ (user = acc.seller /\ acc.buyerConfirmed))
             THEN Outcome(Ok,
               [Unindex(l, offer) EXCEPT
                  !.offers[offer].buyerConfirmed = TRUE,
                  !.offers[offer].sellerConfirmed = TRUE,
                  !.offers[offer].buyerDeposit = 0,
                  !.offers[offer].sellerDeposit = 0,
                  !.offers[offer].status = "completed"])
           ELSE IF user = acc.buyer
             THEN Outcome(Ok,
               [l EXCEPT !.offers[offer].buyerConfirmed = TRUE,
                         !.offers[offer].status = "buyerConfirmed"])
           ELSE Outcome(Ok,
               [l EXCEPT !.offers[offer].sellerConfirmed = TRUE,
                         !.offers[offer].status = "sellerConfirmed"])

ProgramBurnDeposits(l, signer, offer) ==
  IF offer \notin DOMAIN l.offers THEN Outcome("AccountNotInitialized", l)
  ELSE LET acc == l.offers[offer]
       IN  IF ~InProgress(acc.status) THEN Outcome("InvalidState", l)
           ELSE IF signer # acc.buyer /\ signer # acc.seller THEN Outcome("Unauthorized", l)
           ELSE Outcome(Ok,
             [Unindex(l, offer) EXCEPT
                !.offers[offer].buyerDeposit = 0,
                !.offers[offer].sellerDeposit = 0,
                !.offers[offer].status = "burned"])

\* the ledger as the variables hold it
TheLedger == [offers |-> offers, buyerIndex |-> buyerIndex, sellerIndex |-> sellerIndex]

\* program.account.offer.fetch: the decoded account; it fails when the
\* transport fails or no account lives at the address (never created, closed)
FetchFails(l, offerPubkey, netFail) == netFail \/ offerPubkey \notin DOMAIN l.offers
FetchedOffer(l, offerPubkey) ==
  [l.offers[offerPubkey] EXCEPT !.status = AnchorEnum(@)]

\* .rpc(): the instruction reaches the program unless the transport fails
Rpc(outcome, l, netFail) == IF netFail THEN Outcome("LedgerUnavailable", l) ELSE outcome

(***************************************************************************)
(* The localStorage replica.  A JavaScript object is a function whose      *)
(* domain is the set of its keys; JSON drops keys whose value is undefined.*)
(* The timestamps lastUpdated and terminalAt are left out: nothing reads   *)
(* them back.                                                               *)
(***************************************************************************)
EmptyObject == [k \in {} |-> k]
\* { ...obj, ...patch }
Spread(obj, patch) == patch @@ obj
Null == "null"

loadCachedOffers(store, walletPubkey) == store[walletPubkey]

\* a save that writes the owner's entries as the whole store
saveCachedOffersAsWholeStore(store, walletPubkey, offersObj) ==
  [b \in DOMAIN store |-> IF b = walletPubkey THEN offersObj ELSE EmptyObject]

saveCachedOffers(store, walletPubkey, offersObj) ==
  [store EXCEPT ![walletPubkey] = offersObj]

updateCachedOffer(store, walletPubkey, offerPubkey, offerData) ==
  LET cached == loadCachedOffers(store, walletPubkey)
      old == IF offerPubkey \in DOMAIN cached THEN cached[offerPubkey] ELSE EmptyObject
  IN  saveCachedOffers(store, walletPubkey,
                       (offerPubkey :> Spread(old, offerData)) @@ cached)

markOfferTerminal(store, walletPubkey, offerPubkey, status) ==
  LET cached == loadCachedOffers(store, walletPubkey)
  IN  IF offerPubkey \in DOMAIN cached
        THEN saveCachedOffers(store, walletPubkey,
               (offerPubkey :> Spread(cached[offerPubkey],
                                      [status |-> status, isTerminal |-> TRUE]))
               @@ cached)
        ELSE store

serializeOffer(offer, pubkey) ==
  [publicKey |-> pubkey, buyer |-> offer.buyer, seller |-> offer.seller,
   amount |-> offer.amount, buyerDeposit |-> offer.buyerDeposit,
   sellerDeposit |-> offer.sellerDeposit, status |-> parseOfferStatus(offer.status),
   nonce |-> offer.nonce, buyerConfirmed |-> offer.buyerConfirmed,
   sellerConfirmed |-> offer.sellerConfirmed, isClosed |-> offer.isClosed,
   codeHash |-> offer.codeHash]

\* serializeOffer and the terminal flag the callers add for a terminal status
SerializedWithFlag(offer, pubkey) ==
  IF isTerminalStatus(offer.status)
    THEN Spread(serializeOffer(offer, pubkey), [isTerminal |-> TRUE])
    ELSE serializeOffer(offer, pubkey)

\* deserializeOffer builds new PublicKey(cached.publicKey) and
\* new PublicKey(cached.buyer): a TypeError when the key is missing
DeserializeThrows(cached) ==
  "publicKey" \notin DOMAIN cached \/ "buyer" \notin DOMAIN cached

\* cached.isTerminal, cached.buyerConfirmed, cached.sellerConfirmed as conditions
Truthy(obj, key) == key \in DOMAIN obj /\ obj[key] = TRUE

\* cached.buyer === walletKey || cached.seller === walletKey
BelongsTo(cached, walletKey) ==
  \/ ("buyer" \in DOMAIN cached /\ cached.buyer = walletKey)
  \/ ("seller" \in DOMAIN cached /\ cached.seller = walletKey)

(***************************************************************************)
(* Index reads.                                                            *)
(***************************************************************************)
BuyerIndexRead(w) == <<"buyerIndex", w, 0>>
SellerIndexRead(w) == <<"sellerIndex", w, 0>>
NoAddr == <<"none", "none", 0>>

getOrCreateBuyerIndex(l, w, netFail) ==
  IF ~netFail /\ l.buyerIndex[w].exists
    THEN [exists |-> TRUE, activeOffers |-> l.buyerIndex[w].activeOffers]
    ELSE [exists |-> FALSE, activeOffers |-> {}]

\* the result, whether the ledger was read, and the ref afterwards
getSellerIndex(l, ref, w, netFail) ==
  IF ref[w] = "false"
    THEN [exists |-> FALSE, activeOffers |-> {}, read |-> FALSE, ref |-> ref]
  ELSE IF ~netFail /\ l.sellerIndex[w].exists
    THEN [exists |-> TRUE, activeOffers |-> l.sellerIndex[w].activeOffers,
          read |-> TRUE, ref |-> [ref EXCEPT ![w] = "true"]]
  ELSE [exists |-> FALSE, activeOffers |-> {}, read |-> TRUE,
        ref |-> [ref EXCEPT ![w] = "false"]]

\* what an engine call leaves for the properties to look at
Did(op, addr, err) ==
  [op |-> op, addr |-> addr, err |-> err]

(***************************************************************************)
(* The engine's operations.  Each returns what it throws (or Ok), the      *)
(* ledger, the replica and the ref it leaves.  The *Fail parameters say    *)
(* which of its ledger calls fail in transport.                            *)
(***************************************************************************)
Result(err, l, store, ref) == [err |-> err, ledger |-> l, cache |-> store, ref |-> ref]

\* createOffer caching the principal as the buyer's deposit
createOfferCachesPrincipal(l, store, ref, w, amount, code, idxFail, initFail, nonceFail, txFail) ==
  LET buyerIdx == getOrCreateBuyerIndex(l, w, idxFail)
      init == IF buyerIdx.exists THEN Outcome(Ok, l)
              ELSE Rpc(ProgramInitializeBuyerIndex(l, w), l, initFail)
      l1 == init.ledger
  IN  IF init.err # Ok THEN Result(init.err, l1, store, ref)
      ELSE IF nonceFail \/ ~l1.buyerIndex[w].exists
        THEN Result("FetchFailed", l1, store, ref)
      ELSE
        LET nonce == l1.buyerIndex[w].nextNonce
            offerPDA == getOfferPDA(w, nonce)
            codeHash == hashCode(code, offerPDA)
            tx == Rpc(ProgramCreateOffer(l1, w, offerPDA, amount, codeHash), l1, txFail)
        IN  IF tx.err # Ok THEN Result(tx.err, tx.ledger, store, ref)
            ELSE Result(Ok, tx.ledger,
                   updateCachedOffer(store, w, offerPDA,
                     [publicKey |-> offerPDA, buyer |-> w, seller |-> Null,
                      amount |-> amount, buyerDeposit |-> amount,
                      sellerDeposit |-> 0, status |-> PendingSeller,
                      nonce |-> nonce, buyerConfirmed |-> FALSE,
                      sellerConfirmed |-> FALSE, isClosed |-> FALSE,
                      codeHash |-> codeHash]),
                   ref)

createOffer(l, store, ref, w, amount, code, idxFail, initFail, nonceFail, txFail) ==
  LET buyerIdx == getOrCreateBuyerIndex(l, w, idxFail)
      init == IF buyerIdx.exists THEN Outcome(Ok, l)
              ELSE Rpc(ProgramInitializeBuyerIndex(l, w), l, initFail)
      l1 == init.ledger
  IN  IF init.err # Ok THEN Result(init.err, l1, store, ref)
      ELSE IF nonceFail \/ ~l1.buyerIndex[w].exists
        THEN Result("FetchFailed", l1, store, ref)
      ELSE
        LET nonce == l1.buyerIndex[w].nextNonce
            offerPDA == getOfferPDA(w, nonce)
            codeHash == hashCode(code, offerPDA)
            tx == Rpc(ProgramCreateOffer(l1, w, offerPDA, amount, codeHash), l1, txFail)
        IN  IF tx.err # Ok THEN Result(tx.err, tx.ledger, store, ref)
            ELSE Result(Ok, tx.ledger,
                   updateCachedOffer(store, w, offerPDA,
                     [publicKey |-> offerPDA, buyer |-> w, seller |-> Null,
                      amount |-> amount, buyerDeposit |-> amount * 2,
                      sellerDeposit |-> 0, status |-> PendingSeller,
                      nonce |-> nonce, buyerConfirmed |-> FALSE,
                      sellerConfirmed |-> FALSE, isClosed |-> FALSE,
                      codeHash |-> codeHash]),
                   ref)

\* acceptOffer writing its cache entry before the transaction has settled
acceptOfferOptimistic(l, store, ref, w, offerPubkey, code, fetchFail, idxFail, initFail, txFail) ==
  IF FetchFails(l, offerPubkey, fetchFail) THEN Result("FetchFailed", l, store, ref)
  ELSE
    LET offer == FetchedOffer(l, offerPubkey)
        sellerIdx == getSellerIndex(l, ref, w, idxFail)
        init == IF sellerIdx.exists THEN Outcome(Ok, l)
                ELSE Rpc(ProgramInitializeSellerIndex(l, w), l, initFail)
        ref1 == IF ~sellerIdx.exists /\ init.err = Ok
                  THEN [sellerIdx.ref EXCEPT ![w] = "true"] ELSE sellerIdx.ref
        tx == Rpc(ProgramAcceptOffer(init.ledger, w, offerPubkey, code), init.ledger, txFail)
    IN  IF init.err # Ok THEN Result(init.err, init.ledger, store, ref1)
        ELSE Result(tx.err, tx.ledger,
               updateCachedOffer(store, w, offerPubkey,
                 [seller |-> w, sellerDeposit |-> offer.amount, status |-> Locked]),
               ref1)

acceptOffer(l, store, ref, w, offerPubkey, code, fetchFail, idxFail, initFail, txFail) ==
  IF FetchFails(l, offerPubkey, fetchFail) THEN Result("FetchFailed", l, store, ref)
  ELSE
    LET offer == FetchedOffer(l, offerPubkey)
        sellerIdx == getSellerIndex(l, ref, w, idxFail)
        init == IF sellerIdx.exists THEN Outcome(Ok, l)
                ELSE Rpc(ProgramInitializeSellerIndex(l, w), l, initFail)
        \* initializeSellerIndex sets the ref once its transaction went through
        ref1 == IF ~sellerIdx.exists /\ init.err = Ok
                  THEN [sellerIdx.ref EXCEPT ![w] = "true"] ELSE sellerIdx.ref
        tx == Rpc(ProgramAcceptOffer(init.ledger, w, offerPubkey, code), init.ledger, txFail)
    IN  IF init.err # Ok THEN Result(init.err, init.ledger, store, ref1)
        ELSE IF tx.err # Ok THEN Result(tx.err, tx.ledger, store, ref1)
        ELSE Result(Ok, tx.ledger,
               updateCachedOffer(store, w, offerPubkey,
                 [seller |-> w, sellerDeposit |-> offer.amount, status |-> Locked]),
               ref1)

\* the instructions a createOffer call submits, in order
createOfferSends(l, w, idxFail, initFail, nonceFail) ==
  LET buyerIdx == getOrCreateBuyerIndex(l, w, idxFail)
      sent == IF buyerIdx.exists THEN <<>> ELSE <<"initializeBuyerIndex">>
      init == IF buyerIdx.exists THEN Outcome(Ok, l)
              ELSE Rpc(ProgramInitializeBuyerIndex(l, w), l, initFail)
  IN  IF init.err # Ok THEN sent
      ELSE IF nonceFail \/ ~init.ledger.buyerIndex[w].exists THEN sent
      ELSE Append(sent, "createOffer")

\* the instructions an acceptOffer call submits, in order
acceptOfferSends(l, ref, w, offerPubkey, fetchFail, idxFail, initFail) ==
  IF FetchFails(l, offerPubkey, fetchFail) THEN <<>>
  ELSE
    LET sellerIdx == getSellerIndex(l, ref, w, idxFail)
        sent == IF sellerIdx.exists THEN <<>> ELSE <<"initializeSellerIndex">>
        init == IF sellerIdx.exists THEN Outcome(Ok, l)
                ELSE Rpc(ProgramInitializeSellerIndex(l, w), l, initFail)
    IN  IF init.err # Ok THEN sent ELSE Append(sent, "acceptOffer")

cancelOffer(l, store, ref, w, offerPubkey, fetchFail, txFail) ==
  IF FetchFails(l, offerPubkey, fetchFail) THEN Result("FetchFailed", l, store, ref)
  ELSE
    LET tx == Rpc(ProgramCancelOffer(l, w, offerPubkey), l, txFail)
    IN  IF tx.err # Ok THEN Result(tx.err, tx.ledger, store, ref)
        ELSE Result(Ok, tx.ledger,
                    markOfferTerminal(store, w, offerPubkey, Cancelled), ref)

\* releaseOffer inferring the status from the record fetched at the start
releaseOfferInfersFromLedger(l, store, ref, w, offerPubkey, fetchFail, txFail) ==
  IF FetchFails(l, offerPubkey, fetchFail) THEN Result("FetchFailed", l, store, ref)
  ELSE
    LET offer == FetchedOffer(l, offerPubkey)
        tx == Rpc(ProgramConfirmCompletion(l, w, offerPubkey), l, txFail)
        isBuyer == offer.buyer = w
        newStatus == IF isBuyer
                       THEN (IF offer.sellerConfirmed THEN Completed ELSE BuyerConfirmed)
                       ELSE (IF offer.buyerConfirmed THEN Completed ELSE SellerConfirmed)
        flags == IF isBuyer THEN [buyerConfirmed |-> TRUE] ELSE [sellerConfirmed |-> TRUE]
        terminal == IF newStatus = Completed THEN [isTerminal |-> TRUE] ELSE EmptyObject
    IN  IF tx.err # Ok THEN Result(tx.err, tx.ledger, store, ref)
        ELSE Result(Ok, tx.ledger,
               updateCachedOffer(store, w, offerPubkey,
                 Spread(Spread(flags, [status |-> newStatus]), terminal)),
               ref)

releaseOffer(l, store, ref, w, offerPubkey, fetchFail, txFail) ==
  IF FetchFails(l, offerPubkey, fetchFail) THEN Result("FetchFailed", l, store, ref)
  ELSE
    LET offer == FetchedOffer(l, offerPubkey)
        tx == Rpc(ProgramConfirmCompletion(l, w, offerPubkey), l, txFail)
        isBuyer == offer.buyer = w
        all == loadCachedOffers(store, w)
        cached == IF offerPubkey \in DOMAIN all THEN all[offerPubkey] ELSE EmptyObject
        newStatus == IF isBuyer
                       THEN (IF Truthy(cached, "sellerConfirmed") THEN Completed
                             ELSE BuyerConfirmed)
                       ELSE (IF Truthy(cached, "buyerConfirmed") THEN Completed
                             ELSE SellerConfirmed)
        \* buyerConfirmed / sellerConfirmed: true for the caller's flag, the
        \* cached value (possibly undefined, then no key) for the other one
        flags == IF isBuyer THEN [buyerConfirmed |-> TRUE] ELSE [sellerConfirmed |-> TRUE]
        terminal == IF newStatus = Completed THEN [isTerminal |-> TRUE] ELSE EmptyObject
    IN  IF tx.err # Ok THEN Result(tx.err, tx.ledger, store, ref)
        ELSE Result(Ok, tx.ledger,
               updateCachedOffer(store, w, offerPubkey,
                 Spread(Spread(flags, [status |-> newStatus]), terminal)),
               ref)

burnOffer(l, store, ref, w, offerPubkey, fetchFail, txFail) ==
  IF FetchFails(l, offerPubkey, fetchFail) THEN Result("FetchFailed", l, store, ref)
  ELSE
    LET tx == Rpc(ProgramBurnDeposits(l, w, offerPubkey), l, txFail)
    IN  IF tx.err # Ok THEN Result(tx.err, tx.ledger, store, ref)
        ELSE Result(Ok, tx.ledger,
                    markOfferTerminal(store, w, offerPubkey, Burned), ref)

\* fetchOfferStatus answering from the cache when the entry is flagged terminal
fetchOfferStatusTrustsCache(l, store, ref, w, offerPubkey, fetchFail) ==
  IF /\ offerPubkey \in DOMAIN loadCachedOffers(store, w)
     /\ Truthy(loadCachedOffers(store, w)[offerPubkey], "isTerminal")
    THEN Result(Ok, l, store, ref)
  ELSE IF FetchFails(l, offerPubkey, fetchFail) THEN Result("FetchFailed", l, store, ref)
  ELSE Result(Ok, l,
         updateCachedOffer(store, w, offerPubkey,
                           SerializedWithFlag(FetchedOffer(l, offerPubkey), offerPubkey)),
         ref)

\* fetchOfferStatus storing the bare serialized record in place of the entry
fetchOfferStatusReplacesEntry(l, store, ref, w, offerPubkey, fetchFail) ==
  IF FetchFails(l, offerPubkey, fetchFail) THEN Result("FetchFailed", l, store, ref)
  ELSE Result(Ok, l,
         saveCachedOffers(store, w,
           (offerPubkey :> serializeOffer(FetchedOffer(l, offerPubkey), offerPubkey))
             @@ loadCachedOffers(store, w)),
         ref)

fetchOfferStatus(l, store, ref, w, offerPubkey, fetchFail) ==
  IF FetchFails(l, offerPubkey, fetchFail) THEN Result("FetchFailed", l, store, ref)
  ELSE Result(Ok, l,
         updateCachedOffer(store, w, offerPubkey,
                           SerializedWithFlag(FetchedOffer(l, offerPubkey), offerPubkey)),
         ref)

\* findOfferByCode ignoring the status of the accounts it tries
findOfferByCodeAnyStatus(l, order, code, allFail) ==
  LET hit(i) == hashCode(code, order[i]) = FetchedOffer(l, order[i]).codeHash
      hits == {i \in DOMAIN order : hit(i)}
  IN  IF allFail THEN [err |-> "LedgerUnavailable", ret |-> <<>>]
      ELSE IF hits = {} THEN [err |-> Ok, ret |-> <<>>]
      ELSE [err |-> Ok, ret |-> <<order[CHOOSE i \in hits : \A j \in hits : i <= j]>>]

\* findOfferByCode.  order is what program.account.offer.all() returns: the
\* addresses of the ledger's offer accounts, in the ledger's order.  ret is
\* the address of the account returned, or empty for null.
findOfferByCode(l, order, code, allFail) ==
  LET hit(i) == /\ parseOfferStatus(FetchedOffer(l, order[i]).status) = PendingSeller
                /\ hashCode(code, order[i]) = FetchedOffer(l, order[i]).codeHash
      hits == {i \in DOMAIN order : hit(i)}
  IN  IF allFail THEN [err |-> "LedgerUnavailable", ret |-> <<>>]
      ELSE IF hits = {} THEN [err |-> Ok, ret |-> <<>>]
      ELSE [err |-> Ok, ret |-> <<order[CHOOSE i \in hits : \A j \in hits : i <= j]>>]

\* readOfferByCode (import).  The cache is searched first unless
\* forceBlockchainCheck; then every offer account of the program.  allFail:
\* program.account.offer.all() fails in transport.  An entry without a
\* codeHash gives new Uint8Array(undefined), the empty array: no match.
readOfferByCode(l, store, ref, w, code, forceBlockchainCheck, allFail) ==
  LET walletKey == w
      cachedOffers == loadCachedOffers(store, walletKey)
      hits == {pk \in DOMAIN cachedOffers :
                 /\ "codeHash" \in DOMAIN cachedOffers[pk]
                 /\ cachedOffers[pk].codeHash = hashCode(code, pk)}
      found == {pk \in DOMAIN l.offers : l.offers[pk].codeHash = hashCode(code, pk)}
  IN  IF ~forceBlockchainCheck /\ hits # {}
        THEN LET pkStr == CHOOSE pk \in hits : TRUE
             IN  IF DeserializeThrows(cachedOffers[pkStr])
                   THEN Result("TypeError", l, store, ref)
                   ELSE Result(Ok, l, store, ref)
      ELSE IF allFail THEN Result("LedgerUnavailable", l, store, ref)
      ELSE IF found = {} THEN Result(Ok, l, store, ref)
      ELSE
        LET publicKey == CHOOSE pk \in found : TRUE
            account == FetchedOffer(l, publicKey)
            isBuyer == account.buyer = w
            isSeller == account.seller # DefaultKey /\ account.seller = w
        IN  IF ~isBuyer /\ ~isSeller
               /\ parseOfferStatus(account.status) # PendingSeller
              THEN Result("NotParticipant", l, store, ref)
              ELSE Result(Ok, l,
                     updateCachedOffer(store, walletKey, publicKey,
                                       SerializedWithFlag(account, publicKey)),
                     ref)

(***************************************************************************)
(* fetchAllUserOffers.  failing is the set of offer addresses whose fetch  *)
(* fails in transport during the call.  The entries of the cache are       *)
(* visited in insertion order; when deserializeOffer throws on one of      *)
(* them, the reads are recorded as if that entry were visited last.        *)
(* saved is the object handed to saveCachedOffers when the call gets as    *)
(* far as step 4.                                                          *)
(***************************************************************************)
\* step 3, an entry that left the indexes and whose verification fetch failed
InferTerminal(cached) ==
  Spread(IF Truthy(cached, "buyerConfirmed") /\ Truthy(cached, "sellerConfirmed")
           THEN Spread(cached, [status |-> Completed])
           ELSE cached,
         [isTerminal |-> TRUE])

fetchAllUserOffers(l, store, ref, w, buyerFail, sellerFail, failing) ==
  LET walletKey == w
      cachedOffers == loadCachedOffers(store, walletKey)
      buyerIdx == getOrCreateBuyerIndex(l, w, buyerFail)
      sellerIdx == getSellerIndex(l, ref, w, sellerFail)
      activeOfferKeys == buyerIdx.activeOffers \cup sellerIdx.activeOffers
      \* 2. fetch active offers from blockchain
      fetched == {pk \in activeOfferKeys : ~FetchFails(l, pk, pk \in failing)}
      \* 3. cached offers that are not in the active indexes
      others == {pk \in DOMAIN cachedOffers :
                   pk \notin activeOfferKeys /\ BelongsTo(cachedOffers[pk], walletKey)}
      terminal == {pk \in others : Truthy(cachedOffers[pk], "isTerminal")}
      verify == others \ terminal
      verified == {pk \in verify : ~FetchFails(l, pk, pk \in failing)}
      unverified == verify \ verified
      thrown == \E pk \in terminal \cup unverified : DeserializeThrows(cachedOffers[pk])
      updatedCache ==
        [pk \in DOMAIN cachedOffers \cup fetched |->
           IF pk \in fetched THEN serializeOffer(FetchedOffer(l, pk), pk)
           ELSE IF pk \in verified THEN SerializedWithFlag(FetchedOffer(l, pk), pk)
           ELSE IF pk \in unverified THEN InferTerminal(cachedOffers[pk])
           ELSE cachedOffers[pk]]
      \* the catch block: the cache only
      fallback == {pk \in DOMAIN cachedOffers : BelongsTo(cachedOffers[pk], walletKey)}
      fallbackThrows == \E pk \in fallback : DeserializeThrows(cachedOffers[pk])
      indexReads == {BuyerIndexRead(w)} \cup (IF sellerIdx.read THEN {SellerIndexRead(w)} ELSE {})
      indexFailed == (IF buyerIdx.exists THEN {} ELSE {BuyerIndexRead(w)})
                     \cup (IF sellerIdx.read /\ ~sellerIdx.exists
                             THEN {SellerIndexRead(w)} ELSE {})
      call == [reads |-> indexReads \cup activeOfferKeys \cup verify,
               failed |-> indexFailed \cup (activeOfferKeys \ fetched) \cup unverified,
               active |-> activeOfferKeys]
  IN  IF ~thrown
        THEN [err |-> Ok, ledger |-> l, ref |-> sellerIdx.ref,
              cache |-> saveCachedOffers(store, walletKey, updatedCache),
              call |-> call, ret |-> fetched \cup others,
              retCache |-> terminal \cup unverified, saved |-> <<updatedCache>>]
      ELSE IF ~fallbackThrows
        THEN [err |-> Ok, ledger |-> l, ref |-> sellerIdx.ref, cache |-> store,
              call |-> call, ret |-> fallback, retCache |-> fallback, saved |-> <<>>]
      ELSE [err |-> "TypeError", ledger |-> l, ref |-> sellerIdx.ref, cache |-> store,
            call |-> call, ret |-> {}, retCache |-> {}, saved |-> <<>>]

(***************************************************************************)
(* canCancelOffer, canReleaseOffer, canBurnOffer (utils): what the         *)
(* contract screens offer the user to do, from the status they hold.       *)
(***************************************************************************)
\* a draft of canCancelOffer that also lets a locked contract through
canCancelOfferUpToLocked(offer, userPubkey) ==
  LET status == parseOfferStatus(offer.status)
  IN  status <= Locked /\ offer.buyer = userPubkey

canCancelOffer(offer, userPubkey) ==
  LET status == parseOfferStatus(offer.status)
  IN  status = PendingSeller /\ offer.buyer = userPubkey

canReleaseOffer(offer, userPubkey) ==
  LET status == parseOfferStatus(offer.status)
  IN  /\ (status = Locked \/ status = BuyerConfirmed \/ status = SellerConfirmed)
      /\ (offer.buyer = userPubkey \/ offer.seller = userPubkey)

canBurnOffer(offer, userPubkey) == canReleaseOffer(offer, userPubkey)

(***************************************************************************)
(* useSwap: the automatic SOL replenishment.  An error is what a rejected  *)
(* operation() carries: its kind, and the text parseInsufficientLamports-  *)
(* Error collects from it (message, toString, logs, transactionError,      *)
(* simulationResponse, JSON), described by what the patterns look for:     *)
(*   pair     the numbers of "insufficient lamports X, need Y"             *)
(*   have     the number after the first "insufficient lamports"           *)
(*   need     the number after the first "need"                            *)
(*   hex      the text contains "0x1"                                      *)
(*   word     the text, in lower case, contains "insufficient"             *)
(*   numbers  the numbers the text holds as words of their own             *)
(* An absent match is the empty sequence.  Amounts are lamports.           *)
(***************************************************************************)
LAMPORTS_PER_SOL == 1000000000
\* 0.006 SOL and 0.003 SOL
SOL_BUFFER == 6 * (LAMPORTS_PER_SOL \div 1000)
MIN_SOL_FOR_SWAP_TX == 3 * (LAMPORTS_PER_SOL \div 1000)

\* numbers an error text may show: a fee, two balances, a token amount
TextNumbers == {5000, 2000000, 7000000}

RECURSIVE Digits(_)
Digits(n) == IF n < 10 THEN 1 ELSE 1 + Digits(n \div 10)

\* \b(\d{7,10})\b
IsLamportToken(n) == Digits(n) >= 7 /\ Digits(n) <= 10

RECURSIVE LeadingHexDigit(_)
LeadingHexDigit(n) == IF n < 16 THEN n ELSE LeadingHexDigit(n \div 16)

\* IDL.errors: the kinds of program error the claims speak of
ProgramKinds ==
  {"InvalidState", "InsufficientDeposit", "Unauthorized", "AlreadyConfirmed", "AlreadyAccepted"}

ErrorCode(kind) ==
  CASE kind = "InvalidState" -> 6001
    [] kind = "InsufficientDeposit" -> 6005
    [] kind = "Unauthorized" -> 6007
    [] kind = "AlreadyConfirmed" -> 6009
    [] kind = "AlreadyAccepted" -> 6010

\* InsufficientLamports: the system program refusing a transfer or a rent
\* payment; Other: anything else (transport, a rejected signature, ...)
Kinds == ProgramKinds \cup {"InsufficientLamports", "Other"}

NoText == [pair |-> <<>>, have |-> <<>>, need |-> <<>>,
           hex |-> FALSE, word |-> FALSE, numbers |-> {}]

Texts ==
  [pair : {<<>>} \cup {<<x, y>> : x \in {5000, 7000000}, y \in {2000000}},
   have : {<<>>} \cup {<<x>> : x \in {5000, 7000000}},
   need : {<<>>} \cup {<<2000000>>},
   hex : BOOLEAN, word : BOOLEAN,
   numbers : SUBSET {n \in TextNumbers : IsLamportToken(n)}]

Shown(text) ==
  {text.pair[i] : i \in DOMAIN text.pair} \cup {text.have[i] : i \in DOMAIN text.have}
    \cup {text.need[i] : i \in DOMAIN text.need}

\* what any text satisfies, by the way its description is read off it
WellFormed(text) ==
  /\ text.pair # <<>> => (text.have = <<text.pair[1]>> /\ text.need = <<text.pair[2]>>)
  /\ text.have # <<>> => text.word
  /\ {n \in Shown(text) : IsLamportToken(n)} \subseteq text.numbers

\* what the kind of an error says about its text: a program error carries
\* the log line "custom program error: 0x<code>" and the IDL's message
Consistent(kind, text) ==
  /\ WellFormed(text)
  /\ kind \in ProgramKinds =>
       /\ text.pair = <<>> /\ text.have = <<>>
       /\ text.hex = (LeadingHexDigit(ErrorCode(kind)) = 1)
       /\ kind = "InsufficientDeposit" => text.word
  /\ kind = "InsufficientLamports" => (text.pair # <<>> /\ text.hex)

Errors == {e \in [kind : Kinds, text : Texts] : Consistent(e.kind, e.text)}

\* new Error(...) thrown by the wrapper's own code
NewError(name) == [kind |-> name, text |-> NoText]

SetMin(S) == CHOOSE x \in S : \A y \in S : x <= y
SetMax(S) == CHOOSE x \in S : \A y \in S : x >= y

\* the empty sequence for null, else <<[have, need]>>.  Pattern 2 asks for
\* "Transfer:" before what pattern 1 matches and is never reached.
parseInsufficientLamportsError(error) ==
  LET t == error.text
  IN  IF t.pair # <<>> THEN <<[have |-> t.pair[1], need |-> t.pair[2]]>>
      ELSE IF t.have # <<>> /\ t.need # <<>>
        THEN <<[have |-> t.have[1], need |-> t.need[1]]>>
      ELSE IF (t.hex \/ t.word) /\ Cardinality(t.numbers) >= 2
        THEN <<[have |-> SetMin(t.numbers), need |-> SetMax(t.numbers)]>>
      ELSE <<>>

\* replenishSOL with the H173K balance compared after the swap was executed
replenishSOLSwapsFirst(deficitLamports, currentLamports, quoteFails, h173kNeeded, h173kBalance, swapError, messageHit) ==
  LET targetLamports == deficitLamports + SOL_BUFFER
  IN  IF currentLamports < MIN_SOL_FOR_SWAP_TX
        THEN [err |-> <<NewError("NotEnoughSOLForSwap")>>, swaps |-> 0, target |-> targetLamports]
      ELSE IF quoteFails
        THEN [err |-> <<NewError("PoolUnavailable")>>, swaps |-> 0, target |-> targetLamports]
      ELSE IF swapError # <<>> /\ messageHit
        THEN [err |-> <<NewError("SwapFeeShortfall")>>, swaps |-> 1, target |-> targetLamports]
      ELSE IF swapError # <<>>
        THEN [err |-> swapError, swaps |-> 1, target |-> targetLamports]
      ELSE IF h173kNeeded > h173kBalance
        THEN [err |-> <<NewError("InsufficientH173K")>>, swaps |-> 1, target |-> targetLamports]
      ELSE [err |-> <<>>, swaps |-> 1, target |-> targetLamports]

\* replenishSOL.  The balances, the quote and the outcome of the swap
\* transaction come from the ledger: currentLamports, quoteFails,
\* h173kNeeded, h173kBalance, swapError (empty: the swap went through) and
\* messageHit (swapError.message includes 'insufficient' or '0x1').
\* swaps counts the calls of executeSwap.
replenishSOL(deficitLamports, currentLamports, quoteFails, h173kNeeded, h173kBalance, swapError, messageHit) ==
  LET targetLamports == deficitLamports + SOL_BUFFER
  IN  IF currentLamports < MIN_SOL_FOR_SWAP_TX
        THEN [err |-> <<NewError("NotEnoughSOLForSwap")>>, swaps |-> 0, target |-> targetLamports]
      ELSE IF quoteFails
        THEN [err |-> <<NewError("PoolUnavailable")>>, swaps |-> 0, target |-> targetLamports]
      ELSE IF h173kNeeded > h173kBalance
        THEN [err |-> <<NewError("InsufficientH173K")>>, swaps |-> 0, target |-> targetLamports]
      ELSE IF swapError = <<>>
        THEN [err |-> <<>>, swaps |-> 1, target |-> targetLamports]
      ELSE IF messageHit
        THEN [err |-> <<NewError("SwapFeeShortfall")>>, swaps |-> 1, target |-> targetLamports]
      ELSE [err |-> swapError, swaps |-> 1, target |-> targetLamports]

(***************************************************************************)
(* withAutoSOL, from one await to the next.  auto holds the call:          *)
(*   pc        idle, operation (first attempt awaited), replenish          *)
(*             (replenishSOL awaited), retry (second attempt awaited), done*)
(*   opCalls   calls of operation();  swaps  calls of executeSwap          *)
(*   notified  the statuses handed to onSwap, in order                     *)
(*   err1, err2  what the first and second attempt rejected with           *)
(*   thrown    what the caller's await rejects with;  returned  it resolved*)
(*   loading, error  the hook's state                                      *)
(***************************************************************************)
AutoIdle ==
  [pc |-> "idle", onSwap |-> FALSE, opCalls |-> 0, swaps |-> 0, notified |-> <<>>,
   err1 |-> <<>>, parsed |-> <<>>, deficit |-> <<>>, err2 |-> <<>>,
   thrown |-> <<>>, returned |-> FALSE, loading |-> FALSE, error |-> Null]

Notify(a, status) == IF a.onSwap THEN Append(a.notified, status) ELSE a.notified

\* a catch that classifies the second failure like the first one
RetryCatchClassifies(a, error) ==
  LET parsed == parseInsufficientLamportsError(error)
  IN  IF parsed = <<>>
        THEN [a EXCEPT !.pc = "done", !.err2 = <<error>>, !.thrown = <<error>>,
                       !.loading = FALSE]
        ELSE [a EXCEPT !.pc = "replenish", !.err2 = <<error>>, !.parsed = parsed,
                       !.deficit = <<parsed[1].need - parsed[1].have>>]

\* a catch that reports the failure that started the replenishment
RetryCatchThrowsFirst(a, error) ==
  [a EXCEPT !.pc = "done", !.err2 = <<error>>, !.thrown = a.err1,
            !.error = a.err1[1].kind, !.loading = FALSE]

\* a catch that wraps what it rethrows
FirstCatchWraps(a, error) ==
  LET parsed == parseInsufficientLamportsError(error)
  IN  IF parsed = <<>>
        THEN [a EXCEPT !.pc = "done", !.err1 = <<error>>,
                       !.thrown = <<NewError("OperationFailed")>>]
        ELSE [a EXCEPT !.pc = "replenish", !.err1 = <<error>>, !.parsed = parsed,
                       !.deficit = <<parsed[1].need - parsed[1].have>>,
                       !.loading = TRUE, !.error = Null,
                       !.notified = Notify(a, "swapping")]

\* catch (error) of the first attempt, up to the await of replenishSOL
FirstCatch(a, error) ==
  LET parsed == parseInsufficientLamportsError(error)
  IN  IF parsed = <<>>
        THEN [a EXCEPT !.pc = "done", !.err1 = <<error>>, !.thrown = <<error>>]
        ELSE [a EXCEPT !.pc = "replenish", !.err1 = <<error>>, !.parsed = parsed,
                       !.deficit = <<parsed[1].need - parsed[1].have>>,
                       !.loading = TRUE, !.error = Null,
                       !.notified = Notify(a, "swapping")]

\* replenishSOL settled: onSwap, the pause, and the second operation()
AfterReplenish(a, r) ==
  IF r.err = <<>>
    THEN [a EXCEPT !.pc = "retry", !.swaps = @ + r.swaps, !.opCalls = @ + 1,
                   !.notified = Notify(a, "swapped")]
    ELSE [a EXCEPT !.pc = "done", !.swaps = @ + r.swaps, !.thrown = r.err,
                   !.error = r.err[1].kind, !.loading = FALSE]

\* catch (swapError) around the retry, and finally
RetryCatch(a, error) ==
  [a EXCEPT !.pc = "done", !.err2 = <<error>>, !.thrown = <<error>>,
            !.error = error.kind, !.loading = FALSE]

(***************************************************************************)
(* useSwap, the pool quotes.  Amounts are smallest units (BigInt in the    *)
(* source); the callers' decimal amounts are taken after their conversion  *)
(* to smallest units.  swap holds the balances of the pool's two vaults on *)
(* the ledger, the hook's poolInfo and quote states, and what the last     *)
(* step was: ret.pools are the pool snapshots the call computed with.      *)
(***************************************************************************)
PoolUnit == 1000
MaxReserve == 1
MaxInput == 2
MaxQuoteIn == 4

\* vault balances: a pool nearly drained, a pool of thousands
Reserves == (1..MaxReserve) \cup {PoolUnit * k : k \in 1..MaxReserve}
\* amounts the callers ask quotes for
SwapInputs == {(PoolUnit * k) \div 2 : k \in 0..MaxInput}
FeeRates == {0, 25, 2500, 10000}

NoPool == <<>>
SwapCall(op, arg, err, pools) == [op |-> op, arg |-> arg, err |-> err, pools |-> pools]
SwapIdle ==
  [token0Vault |-> PoolUnit, token1Vault |-> PoolUnit, poolInfo |-> NoPool,
   quote |-> <<>>, ret |-> SwapCall("mount", 0, Ok, {})]

\* BigInt division: the quotient is truncated toward zero; d is not 0
BigIntDiv(n, d) ==
  LET q == (IF n < 0 THEN 0 - n ELSE n) \div (IF d < 0 THEN 0 - d ELSE d)
  IN  IF (n < 0) = (d < 0) THEN q ELSE 0 - q

\* calculateOutput taking the fee on whole hundreds of the input
calculateOutputFeePerHundred(amountIn, reserveIn, reserveOut, feeBps) ==
  LET feeAmount == BigIntDiv(amountIn, 100) * (feeBps \div 100)
      amountInAfterFee == amountIn - feeAmount
  IN  BigIntDiv(reserveOut * amountInAfterFee, reserveIn + amountInAfterFee)

\* calculateOutput taking the fee from the output side
calculateOutputFeeOnOutput(amountIn, reserveIn, reserveOut, feeBps) ==
  LET gross == BigIntDiv(reserveOut * amountIn, reserveIn + amountIn)
  IN  gross - BigIntDiv(gross * feeBps, 10000)

\* the quote with the fee taken off the denominator only
calculateOutputFeeOffDenominator(amountIn, reserveIn, reserveOut, feeBps) ==
  LET feeAmount == BigIntDiv(amountIn * feeBps, 10000)
      amountInAfterFee == amountIn - feeAmount
      numerator == reserveOut * amountIn
      denominator == reserveIn + amountInAfterFee
  IN  BigIntDiv(numerator, denominator)

calculateOutput(amountIn, reserveIn, reserveOut, feeBps) ==
  LET feeAmount == BigIntDiv(amountIn * feeBps, 10000)
      amountInAfterFee == amountIn - feeAmount
      numerator == reserveOut * amountInAfterFee
      denominator == reserveIn + amountInAfterFee
  IN  BigIntDiv(numerator, denominator)

\* numerator / denominator of calculateOutput throws a RangeError: the
\* denominator is 0n
calculateOutputDividesByZero(amountIn, reserveIn, feeBps) ==
  reserveIn + (amountIn - BigIntDiv(amountIn * feeBps, 10000)) = 0

reserveH173K(pool) == IF pool.isH173KToken0 THEN pool.token0Reserve ELSE pool.token1Reserve
reserveSOL(pool) == IF pool.isH173KToken0 THEN pool.token1Reserve ELSE pool.token0Reserve

\* the result of a call of the hook: the hook's state after it, the error
\* thrown, the value returned
SwapResult(err, sw, ret) == [err |-> err, swap |-> sw, ret |-> ret]

fetchPoolData(sw, fail) ==
  IF fail THEN SwapResult("FetchFailed", sw, NoPool)
  ELSE LET pool == [token0Reserve |-> sw.token0Vault,
                    token1Reserve |-> sw.token1Vault,
                    isH173KToken0 |-> TRUE]
       IN  SwapResult(Ok, [sw EXCEPT !.poolInfo = <<pool>>], <<pool>>)

\* let pool = poolInfo; if (!pool) pool = await fetchPoolData()
PoolOfCall(sw, fail) ==
  IF sw.poolInfo # NoPool THEN SwapResult(Ok, sw, sw.poolInfo) ELSE fetchPoolData(sw, fail)

\* getSwapQuote, H173K -> SOL
getSwapQuote(sw, inputLamports, fail) ==
  LET f == PoolOfCall(sw, fail)
  IN  IF f.err # Ok THEN SwapResult(f.err, f.swap, <<>>)
      ELSE LET pool == f.ret[1]
               outputLamports == calculateOutput(inputLamports, reserveH173K(pool), reserveSOL(pool), 25)
               quoteData == [kind |-> "H173KtoSOL", inputLamports |-> inputLamports,
                             outputLamports |-> outputLamports, pool |-> pool]
           IN  IF calculateOutputDividesByZero(inputLamports, reserveH173K(pool), 25)
                 THEN SwapResult("RangeError", f.swap, <<>>)
                 ELSE SwapResult(Ok, [f.swap EXCEPT !.quote = <<quoteData>>], <<quoteData>>)

\* getSwapQuoteSOLtoH173K
getSwapQuoteSOLtoH173K(sw, inputLamports, fail) ==
  LET f == PoolOfCall(sw, fail)
  IN  IF f.err # Ok THEN SwapResult(f.err, f.swap, <<>>)
      ELSE LET pool == f.ret[1]
               outputLamports == calculateOutput(inputLamports, reserveSOL(pool), reserveH173K(pool), 25)
               quoteData == [kind |-> "SOLtoH173K", inputLamports |-> inputLamports,
                             outputLamports |-> outputLamports, pool |-> pool]
           IN  SwapResult(Ok, [f.swap EXCEPT !.quote = <<quoteData>>], <<quoteData>>)

\* the reverse calculation with the fee buffer; targetLamports # reserveSOL
h173kNeededRaw(targetLamports, rH173K, rSOL) ==
  LET numerator == rH173K * targetLamports
      denominator == rSOL - targetLamports
  IN  BigIntDiv(BigIntDiv(numerator, denominator) * 10025, 10000)

\* Math.floor((Number(raw) / 10^9 * 1.02) * 10^9): the floor of raw * 1.02;
\* when raw * 1.02 is a whole number other than 0 the double arithmetic may
\* end just below it (roundsDown)
QuotedInput(raw, roundsDown) ==
  LET exact == (raw * 102) \div 100
  IN  IF roundsDown /\ (raw * 102) % 100 = 0 /\ exact # 0 THEN exact - 1 ELSE exact

\* calculateSwapForSOL.  The getSwapQuote it calls is the one of the same
\* render: it sees the poolInfo this call started with.
calculateSwapForSOL(sw, targetLamports, roundsDown, fail, failQuote) ==
  LET f == PoolOfCall(sw, fail)
  IN  IF f.err # Ok THEN SwapResult(f.err, f.swap, <<>>)
      ELSE LET pool == f.ret[1]
           IN  IF reserveSOL(pool) = targetLamports THEN SwapResult("RangeError", f.swap, <<>>)
               ELSE LET raw == h173kNeededRaw(targetLamports, reserveH173K(pool), reserveSOL(pool))
                        input == QuotedInput(raw, roundsDown)
                        q == getSwapQuote([f.swap EXCEPT !.poolInfo = sw.poolInfo], input, failQuote)
                    IN  IF q.err # Ok THEN SwapResult(q.err, f.swap, <<>>)
                        ELSE SwapResult(Ok, q.swap, q.ret)

\* 0.003 SOL, and the 0.005 SOL checkAutoReplenish adds to what is missing
MIN_SOL_FOR_SWAP == 3 * (LAMPORTS_PER_SOL \div 1000)
CheckMargin == 5 * (LAMPORTS_PER_SOL \div 1000)

\* checkAutoReplenish.  neededLamports is the target it hands to
\* calculateSwapForSOL; quoteFails and h173kNeeded are how that call ends
\* (it threw, or the input amount of the quote it returned).
checkAutoReplenish(currentLamports, currentH173K, targetLamports, quoteFails, h173kNeeded) ==
  LET neededLamports == targetLamports - currentLamports + CheckMargin
  IN  IF currentLamports >= targetLamports
        THEN [canReplenish |-> TRUE, h173kNeeded |-> 0, needed |-> <<>>]
      ELSE IF currentLamports < MIN_SOL_FOR_SWAP
        THEN [canReplenish |-> FALSE, h173kNeeded |-> 0, needed |-> <<>>]
      ELSE IF quoteFails
        THEN [canReplenish |-> FALSE, h173kNeeded |-> 0, needed |-> <<neededLamports>>]
      ELSE IF h173kNeeded > currentH173K
        THEN [canReplenish |-> FALSE, h173kNeeded |-> h173kNeeded, needed |-> <<neededLamports>>]
      ELSE [canReplenish |-> TRUE, h173kNeeded |-> h173kNeeded, needed |-> <<neededLamports>>]

(***************************************************************************)
(* crypto/wallet.js, the session signer.  session.wallet is the global     *)
(* SessionWallet (lockTimeout: the auto-lock timer is armed), session.seed *)
(* the encrypted seed in localStorage, session.ret what the last call did: *)
(* the error it threw and the signatures it made.  An encrypted seed is    *)
(* the pair of the mnemonic and the password that opens it.                *)
(***************************************************************************)
Passwords == {"pw1", "pw2"}
Mnemonics == {"m1", "m2"}
AutoLockChoices == {5, 15}
MaxTxs == 2

NoKeypair == "null"
deriveKeypairFromMnemonic(mnemonic) == <<"keypair", mnemonic>>
encryptMnemonic(mnemonic, password) == [mnemonic |-> mnemonic, password |-> password]
WalletIsLocked == "Wallet is locked"

NewSessionWallet ==
  [keypair |-> NoKeypair, publicKey |-> NoKeypair, unlocked |-> FALSE,
   lockTimeout |-> FALSE, autoLockMinutes |-> 5]

SessionCall(op, arg, err, signatures) == [op |-> op, arg |-> arg, err |-> err, signatures |-> signatures]
SessionIdle == [wallet |-> NewSessionWallet, seed |-> <<>>, ret |-> SessionCall("new", "", Ok, {})]

\* the result of a method of the signer: the signer after it, the error
\* thrown, the signatures made
Signed(err, s, signatures) == [err |-> err, wallet |-> s, signatures |-> signatures]

\* loadWallet: decryptMnemonic throws on any password but the seed's
loadWallet(seed, password) ==
  IF seed = <<>> THEN [err |-> "No wallet found", keypair |-> NoKeypair]
  ELSE IF seed[1].password # password THEN [err |-> "Invalid password", keypair |-> NoKeypair]
  ELSE [err |-> Ok, keypair |-> deriveKeypairFromMnemonic(seed[1].mnemonic)]

resetAutoLock(s) == [s EXCEPT !.lockTimeout = TRUE]

unlock(s, seed, password) ==
  LET wallet == loadWallet(seed, password)
  IN  IF wallet.err # Ok THEN Signed(wallet.err, s, {})
      ELSE Signed(Ok, resetAutoLock([s EXCEPT !.keypair = wallet.keypair,
                                              !.publicKey = wallet.keypair,
                                              !.unlocked = TRUE]), {})

\* lock clearing the flag and the timer only
lockKeepsKeypair(s) ==
  [s EXCEPT !.unlocked = FALSE, !.lockTimeout = FALSE]

lock(s) ==
  [s EXCEPT !.keypair = NoKeypair, !.publicKey = NoKeypair,
            !.unlocked = FALSE, !.lockTimeout = FALSE]

setAutoLockMinutes(s, minutes) == resetAutoLock([s EXCEPT !.autoLockMinutes = minutes])

isUnlocked(s) == s.unlocked /\ s.keypair # NoKeypair

getKeypair(s) ==
  IF ~isUnlocked(s) THEN Signed(WalletIsLocked, s, {}) ELSE Signed(Ok, resetAutoLock(s), {})

\* a signature is the pair of the signing keypair and what it signs
signTransaction(s, transaction) ==
  IF ~isUnlocked(s) THEN Signed(WalletIsLocked, s, {})
  ELSE Signed(Ok, resetAutoLock(s), {<<s.keypair, transaction>>})

signAllTransactions(s, transactions) ==
  IF ~isUnlocked(s) THEN Signed(WalletIsLocked, s, {})
  ELSE Signed(Ok, resetAutoLock(s), {<<s.keypair, tx>> : tx \in transactions})

signMessage(s, message) ==
  IF ~isUnlocked(s) THEN Signed(WalletIsLocked, s, {})
  ELSE Signed(Ok, resetAutoLock(s), {<<s.keypair, message>>})

\* useWallet.getSigner
getSigner(s) ==
  IF ~isUnlocked(s) THEN Signed(WalletIsLocked, s, {}) ELSE Signed(Ok, s, {})

(***************************************************************************)
(* auth.js, the PIN and its lockout.  pinAuth holds the keys of            *)
(* localStorage the module keeps (<<>>: the key is absent), the clock that *)
(* Date.now() reads, and what the last call was.  A PIN is the sequence of *)
(* its characters.                                                         *)
(***************************************************************************)
MAX_FAILED_ATTEMPTS == 5
LOCKOUT_DURATION_MS == 5 * 60 * 1000

\* the clock advances by a minute at a time, MaxClock times at most
TickMs == 60 * 1000
MaxClock == 12

PinChars == {"1", "2", "3", "4", "5", "6", "7", "8", "9", "a"}
PinDigits == PinChars \ {"a"}

\* two PINs setupPIN accepts, and PINs of 3, 4, 8 and 9 characters and one
\* with a letter
Pins ==
  { <<"1", "2", "3", "4", "5", "6">>, <<"6", "5", "4", "3", "2", "1">>,
    <<"1", "2", "3">>, <<"1", "2", "3", "4">>, <<"1", "2", "a", "4", "5", "6">>,
    <<"1", "2", "3", "4", "5", "6", "7", "8">>,
    <<"1", "2", "3", "4", "5", "6", "7", "8", "9">> }

\* CryptoJS.SHA256(pin + '_h173k_pin_salt_v1').toString()
hashPIN(pin) == <<"SHA256", pin, "_h173k_pin_salt_v1">>

TooManyAttempts == "Too many attempts"

PinCall(op, arg, err) == [op |-> op, arg |-> arg, err |-> err]

PinIdle ==
  [pinHash |-> <<>>, failedAttempts |-> <<>>, lockoutUntil |-> <<>>, now |-> 0,
   ret |-> PinCall("load", <<>>, Ok)]

\* the outcome of a call: the store after it and the error thrown
PinResult(err, p) == [err |-> err, auth |-> p]

\* parseInt(localStorage.getItem(FAILED_ATTEMPTS_KEY) || '0', 10)
getFailedAttempts(p) == IF p.failedAttempts = <<>> THEN 0 ELSE p.failedAttempts[1]

setupPIN(p, pin) ==
  IF Len(pin) # 6 THEN PinResult("PIN must be exactly 6 digits", p)
  ELSE IF \E i \in DOMAIN pin : pin[i] \notin PinDigits
    THEN PinResult("PIN must contain only digits", p)
  ELSE PinResult(Ok, [p EXCEPT !.pinHash = <<hashPIN(pin)>>,
                               !.failedAttempts = <<>>, !.lockoutUntil = <<>>])

\* isLockedOut: locked is lockout && lockout.locked; an expired lockout is
\* removed with the counter
isLockedOut(p) ==
  IF p.lockoutUntil = <<>> THEN [locked |-> FALSE, auth |-> p]
  ELSE IF p.now < p.lockoutUntil[1] THEN [locked |-> TRUE, auth |-> p]
  ELSE [locked |-> FALSE, auth |-> [p EXCEPT !.lockoutUntil = <<>>, !.failedAttempts = <<>>]]

\* recordFailedAttempt with the lockout starting one failure later
recordFailedAttemptLocksLate(p) ==
  LET attempts == getFailedAttempts(p) + 1
  IN  IF attempts > MAX_FAILED_ATTEMPTS
        THEN [locked |-> TRUE, attemptsRemaining |-> 0,
              auth |-> [p EXCEPT !.failedAttempts = <<attempts>>,
                                 !.lockoutUntil = <<p.now + LOCKOUT_DURATION_MS>>]]
        ELSE [locked |-> FALSE, attemptsRemaining |-> MAX_FAILED_ATTEMPTS - attempts,
              auth |-> [p EXCEPT !.failedAttempts = <<attempts>>]]

recordFailedAttempt(p) ==
  LET attempts == getFailedAttempts(p) + 1
  IN  IF attempts >= MAX_FAILED_ATTEMPTS
        THEN [locked |-> TRUE, attemptsRemaining |-> 0,
              auth |-> [p EXCEPT !.failedAttempts = <<attempts>>,
                                 !.lockoutUntil = <<p.now + LOCKOUT_DURATION_MS>>]]
        ELSE [locked |-> FALSE, attemptsRemaining |-> MAX_FAILED_ATTEMPTS - attempts,
              auth |-> [p EXCEPT !.failedAttempts = <<attempts>>]]

clearFailedAttempts(p) == [p EXCEPT !.failedAttempts = <<>>, !.lockoutUntil = <<>>]

\* "Invalid PIN. N attempts remaining"
InvalidPinRemaining(n) == <<"Invalid PIN.", n, "attempts remaining">>

verifyPIN(p, pin) ==
  LET lockout == isLockedOut(p)
      q == lockout.auth
  IN  IF lockout.locked THEN PinResult(TooManyAttempts, q)
      ELSE IF Len(pin) < 4 \/ Len(pin) > 8 THEN PinResult("Invalid PIN", q)
      ELSE IF q.pinHash = <<>> THEN PinResult("PIN not set up", q)
      ELSE IF hashPIN(pin) = q.pinHash[1] THEN PinResult(Ok, clearFailedAttempts(q))
      ELSE LET result == recordFailedAttempt(q)
           IN  IF result.locked THEN PinResult(TooManyAttempts, result.auth)
               ELSE PinResult(InvalidPinRemaining(result.attemptsRemaining), result.auth)

changePIN(p, oldPIN, newPIN) ==
  LET v == verifyPIN(p, oldPIN)
  IN  IF v.err # Ok THEN v ELSE setupPIN(v.auth, newPIN)

resetAuth(p) == [p EXCEPT !.pinHash = <<>>, !.failedAttempts = <<>>, !.lockoutUntil = <<>>]

(***************************************************************************)
(* The state machine of the escrow engine.                                 *)
(***************************************************************************)
Init ==
  /\ offers = EmptyObject
  /\ buyerIndex = [w \in Wallets |-> NoIndex]
  /\ sellerIndex = [w \in Wallets |-> NoIndex]
  /\ cache = [w \in Wallets |-> EmptyObject]
  /\ sellerIndexExistsRef = [w \in Wallets |-> "unset"]
  /\ last = Did("init", NoAddr, Ok)
  /\ auto = AutoIdle
  /\ inFlight = <<>>
  /\ lookup = <<>>
  /\ swap = SwapIdle
  /\ session = SessionIdle
  /\ pinAuth = PinIdle

Apply(r, seen) ==
  /\ offers' = r.ledger.offers
  /\ buyerIndex' = r.ledger.buyerIndex
  /\ sellerIndex' = r.ledger.sellerIndex
  /\ cache' = r.cache
  /\ sellerIndexExistsRef' = r.ref
  /\ last' = seen
  /\ UNCHANGED <<auto, inFlight, sideVars>>

CreateOffer ==
  \E w \in Wallets, amount \in Amounts, code \in Codes,
     idxFail \in BOOLEAN, initFail \in BOOLEAN, nonceFail \in BOOLEAN, txFail \in BOOLEAN :
    /\ Cardinality(DOMAIN offers) < MaxOffers
    \* wallets and codes are interchangeable: the first offer is A's, under k1
    /\ DOMAIN offers = {} => (w = "A" /\ code = "k1")
    /\ buyerIndex[w].nextNonce < MaxNonce
    /\ LET r == createOffer(TheLedger, cache, sellerIndexExistsRef, w, amount, code,
                            idxFail, initFail, nonceFail, txFail)
       IN  Apply(r, Did("createOffer", getOfferPDA(w, buyerIndex[w].nextNonce), r.err))

AcceptOffer ==
  \E w \in Wallets, a \in DOMAIN offers, code \in Codes,
     fetchFail \in BOOLEAN, idxFail \in BOOLEAN, initFail \in BOOLEAN, txFail \in BOOLEAN :
    \* a call that is never reached has no outcome to choose
    /\ fetchFail => ~idxFail /\ ~initFail /\ ~txFail
    /\ initFail => ~txFail
    /\ LET r == acceptOffer(TheLedger, cache, sellerIndexExistsRef, w, a, code,
                            fetchFail, idxFail, initFail, txFail)
       IN  Apply(r, Did("acceptOffer", a, r.err))

CancelOffer ==
  \E w \in Wallets, a \in DOMAIN offers, fetchFail \in BOOLEAN, txFail \in BOOLEAN :
    /\ fetchFail => ~txFail
    /\ LET r == cancelOffer(TheLedger, cache, sellerIndexExistsRef, w, a, fetchFail, txFail)
       IN  Apply(r, Did("cancelOffer", a, r.err))

ReleaseOffer ==
  \E w \in Wallets, a \in DOMAIN offers, fetchFail \in BOOLEAN, txFail \in BOOLEAN :
    /\ fetchFail => ~txFail
    /\ LET r == releaseOffer(TheLedger, cache, sellerIndexExistsRef, w, a, fetchFail, txFail)
       IN  Apply(r, Did("releaseOffer", a, r.err))

BurnOffer ==
  \E w \in Wallets, a \in DOMAIN offers, fetchFail \in BOOLEAN, txFail \in BOOLEAN :
    /\ fetchFail => ~txFail
    /\ LET r == burnOffer(TheLedger, cache, sellerIndexExistsRef, w, a, fetchFail, txFail)
       IN  Apply(r, Did("burnOffer", a, r.err))

FetchOfferStatus ==
  \E w \in Wallets, a \in DOMAIN offers, fetchFail \in BOOLEAN :
    LET r == fetchOfferStatus(TheLedger, cache, sellerIndexExistsRef, w, a, fetchFail)
    IN  Apply(r, Did("fetchOfferStatus", a, r.err))

ReadOfferByCode ==
  \E w \in Wallets, code \in Codes, forceBlockchainCheck \in BOOLEAN, allFail \in BOOLEAN :
    /\ DOMAIN offers # {}
    /\ LET r == readOfferByCode(TheLedger, cache, sellerIndexExistsRef, w, code,
                                forceBlockchainCheck, allFail)
       IN  Apply(r, Did("readOfferByCode", NoAddr, r.err))

FetchAllUserOffers ==
  \E w \in Wallets, buyerFail \in BOOLEAN, sellerFail \in BOOLEAN, failing \in SUBSET DOMAIN offers :
    LET r == fetchAllUserOffers(TheLedger, cache, sellerIndexExistsRef, w,
                                buyerFail, sellerFail, failing)
    IN  Apply(r, Did("fetchAllUserOffers", NoAddr, r.err))

\* a page load: useEscrowProgram is mounted again and its ref starts empty
Remount ==
  \E w \in Wallets :
    /\ sellerIndexExistsRef[w] # "unset"
    /\ sellerIndexExistsRef' = [sellerIndexExistsRef EXCEPT ![w] = "unset"]
    /\ last' = Did("remount", NoAddr, Ok)
    /\ UNCHANGED <<offers, buyerIndex, sellerIndex, cache, auto, inFlight, sideVars>>

Next ==
  \/ CreateOffer
  \/ AcceptOffer
  \/ CancelOffer
  \/ ReleaseOffer
  \/ BurnOffer
  \/ FetchOfferStatus
  \/ ReadOfferByCode
  \/ FetchAllUserOffers
  \/ Remount

Spec == Init /\ [][Next]_vars

(***************************************************************************)
(* The state machine of one wallet's withAutoSOL calls.  operation() is    *)
(* any of the callers' operations: it resolves, or rejects with an error.  *)
(***************************************************************************)
\* h173k amounts of a quote and of a balance, in whole tokens
TokenAmounts == {1, 2}

\* what the swap transaction fails with: not an error of the escrow program
SwapErrors == {e \in Errors : e.kind \notin ProgramKinds /\ e.text.need = <<>>}

InitAuto == Init

\* withAutoSOL(operation, onSwap) up to the first await
WithAutoSOL ==
  \E connected \in BOOLEAN, onSwap \in BOOLEAN :
    /\ auto.pc \in {"idle", "done"}
    /\ auto' = IF ~connected
                 THEN [AutoIdle EXCEPT !.pc = "done",
                                       !.thrown = <<NewError("WalletNotConnected")>>]
                 ELSE [AutoIdle EXCEPT !.pc = "operation", !.onSwap = onSwap,
                                       !.opCalls = 1]
    /\ UNCHANGED escrowVars

OperationSettles ==
  /\ auto.pc = "operation"
  /\ \/ auto' = [auto EXCEPT !.pc = "done", !.returned = TRUE]
     \/ \E error \in Errors : auto' = FirstCatch(auto, error)
  /\ UNCHANGED escrowVars

ReplenishSettles ==
  /\ auto.pc = "replenish"
  /\ \E currentLamports \in {0, MIN_SOL_FOR_SWAP_TX}, quoteFails \in BOOLEAN,
        h173kNeeded \in TokenAmounts, h173kBalance \in TokenAmounts,
        swapError \in {<<>>} \cup {<<e>> : e \in SwapErrors}, messageHit \in BOOLEAN :
       /\ messageHit => (swapError # <<>> /\ (swapError[1].text.hex \/ swapError[1].text.word))
       \* a step that is never reached has no outcome to choose
       /\ currentLamports < MIN_SOL_FOR_SWAP_TX => ~quoteFails
       /\ (currentLamports < MIN_SOL_FOR_SWAP_TX \/ quoteFails) =>
            (h173kNeeded = 1 /\ h173kBalance = 1)
       /\ (currentLamports < MIN_SOL_FOR_SWAP_TX \/ quoteFails \/ h173kNeeded > h173kBalance)
            => swapError = <<>>
       /\ auto' = AfterReplenish(auto,
                    replenishSOL(auto.deficit[1], currentLamports, quoteFails,
                                 h173kNeeded, h173kBalance, swapError, messageHit))
  /\ UNCHANGED escrowVars

RetrySettles ==
  /\ auto.pc = "retry"
  /\ \/ auto' = [auto EXCEPT !.pc = "done", !.returned = TRUE, !.loading = FALSE]
     \/ \E error \in Errors : auto' = RetryCatch(auto, error)
  /\ UNCHANGED escrowVars

NextAuto ==
  \/ WithAutoSOL
  \/ OperationSettles
  \/ ReplenishSettles
  \/ RetrySettles

\* every awaited promise settles
SpecAuto ==
  /\ InitAuto
  /\ [][NextAuto]_vars
  /\ WF_vars(OperationSettles \/ ReplenishSettles \/ RetrySettles)

(***************************************************************************)
(* The engine while a fetchAllUserOffers call is awaiting.  The call loads *)
(* the caller's cache before its first await and saves the object it built *)
(* from that load after its last one; the calls of the same hook made in   *)
(* between run to their end.  The ledger is reachable throughout.          *)
(***************************************************************************)
InitRace == Init

\* fetchAllUserOffers up to its last await: the cache loaded, the ledger read
ListMineAwaits ==
  \E w \in Wallets :
    /\ inFlight = <<>>
    /\ LET r == fetchAllUserOffers(TheLedger, cache, sellerIndexExistsRef, w,
                                   FALSE, FALSE, {})
       IN  /\ inFlight' = <<[w |-> w, err |-> r.err, saved |-> r.saved]>>
           /\ sellerIndexExistsRef' = r.ref
    /\ UNCHANGED <<offers, buyerIndex, sellerIndex, cache, last, auto, sideVars>>

\* ... and from there to its return: saveCachedOffers(walletKey, updatedCache)
ListMineSaves ==
  /\ inFlight # <<>>
  /\ cache' = IF inFlight[1].saved # <<>>
                THEN saveCachedOffers(cache, inFlight[1].w, inFlight[1].saved[1])
                ELSE cache
  /\ last' = Did("fetchAllUserOffers", NoAddr, inFlight[1].err)
  /\ inFlight' = <<>>
  /\ UNCHANGED <<offers, buyerIndex, sellerIndex, sellerIndexExistsRef, auto, sideVars>>

\* a call of another operation, from its start to its return
Lands ==
  \E w \in Wallets, a \in DOMAIN offers \cup {NoAddr}, code \in Codes :
    \/ /\ a = NoAddr
       /\ Cardinality(DOMAIN offers) < MaxOffers
       /\ DOMAIN offers = {} => (w = "A" /\ code = "k1")
       /\ buyerIndex[w].nextNonce < MaxNonce
       /\ \E amount \in Amounts :
            LET r == createOffer(TheLedger, cache, sellerIndexExistsRef, w, amount, code,
                                 FALSE, FALSE, FALSE, FALSE)
            IN  Apply(r, Did("createOffer", getOfferPDA(w, buyerIndex[w].nextNonce), r.err))
    \/ /\ a # NoAddr
       /\ LET r == acceptOffer(TheLedger, cache, sellerIndexExistsRef, w, a, code,
                               FALSE, FALSE, FALSE, FALSE)
          IN  Apply(r, Did("acceptOffer", a, r.err))
    \/ /\ a # NoAddr
       /\ LET r == cancelOffer(TheLedger, cache, sellerIndexExistsRef, w, a, FALSE, FALSE)
          IN  Apply(r, Did("cancelOffer", a, r.err))
    \/ /\ a # NoAddr
       /\ LET r == releaseOffer(TheLedger, cache, sellerIndexExistsRef, w, a, FALSE, FALSE)
          IN  Apply(r, Did("releaseOffer", a, r.err))
    \/ /\ a # NoAddr
       /\ LET r == burnOffer(TheLedger, cache, sellerIndexExistsRef, w, a, FALSE, FALSE)
          IN  Apply(r, Did("burnOffer", a, r.err))
    \/ /\ a # NoAddr
       /\ LET r == fetchOfferStatus(TheLedger, cache, sellerIndexExistsRef, w, a, FALSE)
          IN  Apply(r, Did("fetchOfferStatus", a, r.err))

NextRace ==
  \/ ListMineAwaits
  \/ ListMineSaves
  \/ Lands

SpecRace == InitRace /\ [][NextRace]_vars

(***************************************************************************)
(* findOfferByCode over ledgers of several offers: SpecFind.  The ledger   *)
(* holds up to MaxListed offer accounts as the program leaves them, made   *)
(* by any buyers with any codes; the browser's cache is empty.             *)
(***************************************************************************)
MaxListed == 2

\* the offer accounts the program can hold at address a
AccountsAt(a) ==
  {[buyer |-> a[2],
    seller |-> IF st = "locked" THEN CHOOSE s \in Wallets : s # a[2] ELSE DefaultKey,
    amount |-> m,
    buyerDeposit |-> IF st = "cancelled" THEN 0 ELSE 2 * m,
    sellerDeposit |-> IF st = "locked" THEN m ELSE 0,
    codeHash |-> hashCode(c, a),
    status |-> st,
    nonce |-> a[3],
    buyerConfirmed |-> FALSE,
    sellerConfirmed |-> FALSE,
    isClosed |-> FALSE] :
     c \in Codes, m \in Amounts, st \in {"pendingSeller", "locked", "cancelled"}}

ListedOffers ==
  UNION {{f \in [S -> UNION {AccountsAt(a) : a \in S}] : \A a \in S : f[a] \in AccountsAt(a)} :
           S \in {T \in SUBSET Addrs : Cardinality(T) <= MaxListed}}

\* the orders program.account.offer.all() can return the accounts of S in
Orderings(S) ==
  {s \in [1..Cardinality(S) -> S] : \A i, j \in 1..Cardinality(S) : s[i] = s[j] => i = j}

InitFind ==
  /\ offers \in ListedOffers
  /\ buyerIndex = [w \in Wallets |->
       LET mine == {a \in DOMAIN offers : offers[a].buyer = w}
       IN  IF mine = {} THEN NoIndex
           ELSE [exists |-> TRUE,
                 activeOffers |-> {a \in mine : offers[a].status # "cancelled"},
                 nextNonce |-> 1 + CHOOSE n \in Nonces : \A a \in mine : a[3] <= n /\ \E b \in mine : b[3] = n]]
  /\ sellerIndex = [w \in Wallets |->
       LET mine == {a \in DOMAIN offers : offers[a].seller = w}
       IN  IF mine = {} THEN NoIndex
           ELSE [exists |-> TRUE,
                 activeOffers |-> {a \in mine : InProgress(offers[a].status)},
                 nextNonce |-> 0]]
  /\ cache = [w \in Wallets |-> EmptyObject]
  /\ sellerIndexExistsRef = [w \in Wallets |-> "unset"]
  /\ last = Did("init", NoAddr, Ok)
  /\ auto = AutoIdle
  /\ inFlight = <<>>
  /\ lookup = <<>>
  /\ swap = SwapIdle
  /\ session = SessionIdle
  /\ pinAuth = PinIdle

FindOfferByCode ==
  \E order \in Orderings(DOMAIN offers), code \in Codes, allFail \in BOOLEAN :
    LET r == findOfferByCode(TheLedger, order, code, allFail)
    IN  /\ lookup' = <<[order |-> order, code |-> code, err |-> r.err, ret |-> r.ret]>>
        /\ UNCHANGED <<offers, buyerIndex, sellerIndex, cache, sellerIndexExistsRef, last, auto, inFlight, swap, session, pinAuth>>

NextFind == FindOfferByCode

SpecFind == InitFind /\ [][NextFind]_vars

(***************************************************************************)
(* The pool quotes while anybody trades with the pool: SpecSwap.           *)
(***************************************************************************)
escrowAll == <<offers, buyerIndex, sellerIndex, cache, sellerIndexExistsRef, last, auto, inFlight, lookup, session, pinAuth>>

InitSwap == Init

\* a trade or a liquidity change by any party moves the vault balances
Trade ==
  \E r0, r1 \in Reserves :
    /\ <<r0, r1>> # <<swap.token0Vault, swap.token1Vault>>
    /\ swap' = [swap EXCEPT !.token0Vault = r0, !.token1Vault = r1,
                            !.ret = SwapCall("trade", 0, Ok, {})]
    /\ UNCHANGED escrowAll

\* the component using the hook mounts again: useState(null)
MountSwap ==
  /\ swap' = [swap EXCEPT !.poolInfo = NoPool, !.quote = <<>>,
                          !.ret = SwapCall("mount", 0, Ok, {})]
  /\ UNCHANGED escrowAll

FetchPoolData ==
  \E fail \in BOOLEAN :
    LET r == fetchPoolData(swap, fail)
    IN  /\ swap' = [r.swap EXCEPT !.ret = SwapCall("fetchPoolData", 0, r.err, {p \in {r.ret} : p # NoPool})]
        /\ UNCHANGED escrowAll

GetSwapQuote ==
  \E inputLamports \in SwapInputs, fail \in BOOLEAN :
    LET r == getSwapQuote(swap, inputLamports, fail)
    IN  /\ fail => swap.poolInfo = NoPool
        /\ swap' = [r.swap EXCEPT !.ret = SwapCall("getSwapQuote", inputLamports, r.err, {q.pool : q \in {r.ret[i] : i \in DOMAIN r.ret}})]
        /\ UNCHANGED escrowAll

GetSwapQuoteSOLtoH173K ==
  \E inputLamports \in SwapInputs, fail \in BOOLEAN :
    LET r == getSwapQuoteSOLtoH173K(swap, inputLamports, fail)
    IN  /\ fail => swap.poolInfo = NoPool
        /\ swap' = [r.swap EXCEPT !.ret = SwapCall("getSwapQuoteSOLtoH173K", inputLamports, r.err, {q.pool : q \in {r.ret[i] : i \in DOMAIN r.ret}})]
        /\ UNCHANGED escrowAll

\* a target above the SOL reserve of the pool the call computes with gives
\* a negative input to the quote
CalculateSwapForSOL ==
  \E targetLamports \in SwapInputs, roundsDown, fail, failQuote \in BOOLEAN :
    LET r == calculateSwapForSOL(swap, targetLamports, roundsDown, fail, failQuote)
        first == PoolOfCall(swap, fail)
    IN  /\ (fail \/ failQuote) => swap.poolInfo = NoPool
        /\ failQuote => ~fail
        /\ swap' = [r.swap EXCEPT !.ret = SwapCall("calculateSwapForSOL", targetLamports, r.err,
                      IF r.err = Ok THEN {first.ret[1], r.ret[1].pool} ELSE {})]
        /\ UNCHANGED escrowAll

NextSwap ==
  \/ Trade
  \/ MountSwap
  \/ FetchPoolData
  \/ GetSwapQuote
  \/ GetSwapQuoteSOLtoH173K
  \/ CalculateSwapForSOL

SpecSwap == InitSwap /\ [][NextSwap]_vars

(***************************************************************************)
(* The session signer: SpecSigner.                                         *)
(***************************************************************************)
Txs == 1..MaxTxs
notSession == <<offers, buyerIndex, sellerIndex, cache, sellerIndexExistsRef, last, auto, inFlight, lookup, swap, pinAuth>>

InitSigner == Init

\* useWallet.createWallet / importExistingWallet: the seed is stored under
\* the password, then the signer is unlocked with it
CreateWallet ==
  \E mnemonic \in Mnemonics, password \in Passwords :
    LET seed == <<encryptMnemonic(mnemonic, password)>>
        r == unlock(session.wallet, seed, password)
    IN  /\ session' = [wallet |-> r.wallet, seed |-> seed,
                       ret |-> SessionCall("createWallet", password, r.err, r.signatures)]
        /\ UNCHANGED notSession

\* useWallet.unlockWithPIN / unlockWithBiometric, past the PIN check
Unlock ==
  \E password \in Passwords :
    LET r == unlock(session.wallet, session.seed, password)
    IN  /\ session' = [session EXCEPT !.wallet = r.wallet,
                                      !.ret = SessionCall("unlock", password, r.err, r.signatures)]
        /\ UNCHANGED notSession

Lock ==
  /\ session' = [session EXCEPT !.wallet = lock(@), !.ret = SessionCall("lock", "", Ok, {})]
  /\ UNCHANGED notSession

\* the timer armed by resetAutoLock expires
AutoLock ==
  /\ session.wallet.lockTimeout
  /\ session' = [session EXCEPT !.wallet = lock(@), !.ret = SessionCall("autoLock", "", Ok, {})]
  /\ UNCHANGED notSession

\* useWallet.deleteWallet
DeleteWallet ==
  /\ session' = [wallet |-> lock(session.wallet), seed |-> <<>>,
                 ret |-> SessionCall("deleteWallet", "", Ok, {})]
  /\ UNCHANGED notSession

SetAutoLockMinutes ==
  \E minutes \in AutoLockChoices :
    /\ session' = [session EXCEPT !.wallet = setAutoLockMinutes(@, minutes),
                                  !.ret = SessionCall("setAutoLockMinutes", "", Ok, {})]
    /\ UNCHANGED notSession

\* the session after a method of the signer returned or threw
SessionAfter(op, r) ==
  [session EXCEPT !.wallet = r.wallet, !.ret = SessionCall(op, "", r.err, r.signatures)]

GetKeypair ==
  /\ session' = SessionAfter("getKeypair", getKeypair(session.wallet))
  /\ UNCHANGED notSession

SignTransaction ==
  \E transaction \in Txs :
    /\ session' = SessionAfter("signTransaction", signTransaction(session.wallet, transaction))
    /\ UNCHANGED notSession

SignAllTransactions ==
  \E transactions \in SUBSET Txs :
    /\ session' = SessionAfter("signAllTransactions", signAllTransactions(session.wallet, transactions))
    /\ UNCHANGED notSession

SignMessage ==
  \E message \in Txs :
    /\ session' = SessionAfter("signMessage", signMessage(session.wallet, message))
    /\ UNCHANGED notSession

GetSigner ==
  /\ session' = SessionAfter("getSigner", getSigner(session.wallet))
  /\ UNCHANGED notSession

NextSigner ==
  \/ CreateWallet
  \/ Unlock
  \/ Lock
  \/ AutoLock
  \/ DeleteWallet
  \/ SetAutoLockMinutes
  \/ GetKeypair
  \/ SignTransaction
  \/ SignAllTransactions
  \/ SignMessage
  \/ GetSigner

SpecSigner == InitSigner /\ [][NextSigner]_vars

(***************************************************************************)
(* The PIN and its lockout: SpecPin.  The calls of auth.js in any order,   *)
(* with any PIN typed, while the clock advances.                           *)
(***************************************************************************)
notPin == <<offers, buyerIndex, sellerIndex, cache, sellerIndexExistsRef, last, auto, inFlight, lookup, swap, session>>

InitPin == Init

SetupPIN ==
  \E pin \in Pins :
    LET r == setupPIN(pinAuth, pin)
    IN  /\ pinAuth' = [r.auth EXCEPT !.ret = PinCall("setupPIN", pin, r.err)]
        /\ UNCHANGED notPin

VerifyPIN ==
  \E pin \in Pins :
    LET r == verifyPIN(pinAuth, pin)
    IN  /\ pinAuth' = [r.auth EXCEPT !.ret = PinCall("verifyPIN", pin, r.err)]
        /\ UNCHANGED notPin

IsLockedOut ==
  /\ pinAuth' = [isLockedOut(pinAuth).auth EXCEPT !.ret = PinCall("isLockedOut", <<>>, Ok)]
  /\ UNCHANGED notPin

ChangePIN ==
  \E oldPIN \in Pins, newPIN \in Pins :
    LET r == changePIN(pinAuth, oldPIN, newPIN)
    IN  /\ pinAuth' = [r.auth EXCEPT !.ret = PinCall("changePIN", oldPIN, r.err)]
        /\ UNCHANGED notPin

ResetAuth ==
  /\ pinAuth' = [resetAuth(pinAuth) EXCEPT !.ret = PinCall("resetAuth", <<>>, Ok)]
  /\ UNCHANGED notPin

\* a minute passes
Tick ==
  /\ pinAuth.now < MaxClock * TickMs
  /\ pinAuth' = [pinAuth EXCEPT !.now = @ + TickMs]
  /\ UNCHANGED notPin

NextPin ==
  \/ SetupPIN
  \/ VerifyPIN
  \/ IsLockedOut
  \/ ChangePIN
  \/ ResetAuth
  \/ Tick

SpecPin == InitPin /\ [][NextPin]_vars


(***************************************************************************)
(* Properties of the escrow engine, checked under Spec.                    *)
(***************************************************************************)
LifecycleEdge(s, t) ==
  \/ s = "pendingSeller" /\ t \in {"locked", "cancelled"}
  \/ s = "locked" /\ t \in {"buyerConfirmed", "sellerConfirmed", "burned"}
  \/ s \in {"buyerConfirmed", "sellerConfirmed"} /\ t \in {"completed", "burned"}

\* errors of an engine call that did not come from the instruction it sends
TransportErrors == {"FetchFailed", "LedgerUnavailable"}

LockedNow == {a \in DOMAIN offers : offers[a].status = "locked"}

\* every step moves every contract along an edge of the lifecycle, or not at all
StatusAlongEdges ==
  /\ DOMAIN offers \subseteq DOMAIN offers'
  /\ \A a \in DOMAIN offers' :
       IF a \in DOMAIN offers
         THEN \/ offers'[a].status = offers[a].status
              \/ LifecycleEdge(offers[a].status, offers'[a].status)
         ELSE offers'[a].status = "pendingSeller"

\* the accept and cancel instructions on a locked contract: InvalidState
LockedRejects ==
  \A a \in LockedNow :
    /\ \A w \in Wallets, code \in Codes :
         TheLedger.sellerIndex[w].exists =>
           ProgramAcceptOffer(TheLedger, w, a, code) = Outcome("InvalidState", TheLedger)
    /\ \A w \in Wallets :
         /\ ProgramCancelOffer(TheLedger, w, a) = Outcome("InvalidState", TheLedger)
         /\ cancelOffer(TheLedger, cache, sellerIndexExistsRef, w, a, FALSE, FALSE).err
              = "InvalidState"
         /\ ~canCancelOffer(FetchedOffer(TheLedger, a), w)

\* an engine call of accept or cancel on a locked contract fails, with
\* InvalidState unless it failed before its instruction was executed, and
\* changes neither the ledger nor any cache
LockedCallFails ==
  (last'.op \in {"acceptOffer", "cancelOffer"} /\ last'.addr \in LockedNow) =>
    /\ last'.err \in {"InvalidState", "AccountInUse"} \cup TransportErrors
    /\ last'.op = "cancelOffer" => last'.err # "AccountInUse"
    /\ UNCHANGED <<offers, buyerIndex, cache>>
    /\ \A w \in Wallets : sellerIndex'[w].activeOffers = sellerIndex[w].activeOffers

\* what the engine gets through is what the screens' guards allow
GuardsAgree ==
  \A a \in DOMAIN offers, w \in Wallets :
    LET offer == FetchedOffer(TheLedger, a)
    IN  /\ cancelOffer(TheLedger, cache, sellerIndexExistsRef, w, a, FALSE, FALSE).err = Ok
             <=> canCancelOffer(offer, w)
        /\ releaseOffer(TheLedger, cache, sellerIndexExistsRef, w, a, FALSE, FALSE).err = Ok
             => canReleaseOffer(offer, w)
        /\ burnOffer(TheLedger, cache, sellerIndexExistsRef, w, a, FALSE, FALSE).err = Ok
             <=> canBurnOffer(offer, w)

Mine(store, w) ==
  {a \in DOMAIN loadCachedOffers(store, w) : BelongsTo(loadCachedOffers(store, w)[a], w)}

MarkedTerminal(store, w) ==
  {a \in Mine(store, w) : Truthy(loadCachedOffers(store, w)[a], "isTerminal")}

ListMine(w, buyerFail, sellerFail, failing) ==
  fetchAllUserOffers(TheLedger, cache, sellerIndexExistsRef, w, buyerFail, sellerFail, failing)

\* C2: once an owner's cache entry has isTerminal set, every ListMine of that
\* owner returns the contract from the cache and reads nothing at its
\* address, whatever the indexes read during the call contain.
C2_TerminalEntryIsNeverRead ==
  \A w \in Wallets : \A a \in MarkedTerminal(cache, w) :
    \A buyerFail \in BOOLEAN, sellerFail \in BOOLEAN, failing \in SUBSET DOMAIN offers :
      LET r == ListMine(w, buyerFail, sellerFail, failing)
      IN  r.err = Ok => (a \notin r.call.reads /\ a \in r.retCache)

\* C3: after a ListMine with the ledger reachable, the owner's cached
\* contracts not marked terminal are exactly the addresses listed in the
\* buyer and seller indexes as read during the call.
C3_NonTerminalCacheIsTheIndexes ==
  \A w \in Wallets :
    LET r == ListMine(w, FALSE, FALSE, {})
    IN  r.err = Ok =>
          Mine(r.cache, w) \ MarkedTerminal(r.cache, w) = r.call.active

\* C4: when every ledger read of a ListMine fails, the owner's cache after
\* the call is the cache before it; no entry is newly marked terminal.
C4_UnreachableLedgerKeepsCache ==
  \A w \in Wallets :
    LET r == ListMine(w, TRUE, TRUE, DOMAIN offers)
    IN  /\ loadCachedOffers(r.cache, w) = loadCachedOffers(cache, w)
        /\ MarkedTerminal(r.cache, w) \subseteq MarkedTerminal(cache, w)

\* C5: ListMine never throws; when ledger reads fail it returns the owner's
\* cached contracts.
C5_ListMineNeverThrows ==
  \A w \in Wallets, buyerFail \in BOOLEAN, sellerFail \in BOOLEAN,
     failing \in SUBSET DOMAIN offers :
    LET r == ListMine(w, buyerFail, sellerFail, failing)
    IN  /\ r.err = Ok
        /\ (buyerFail /\ sellerFail /\ failing = DOMAIN offers) => r.ret = Mine(cache, w)

(***************************************************************************)
(* Properties of withAutoSOL, checked under SpecAuto.                      *)
(***************************************************************************)
InCall == auto.pc \in {"operation", "replenish", "retry"}
Failed1 == auto.err1 # <<>>
Failed2 == auto.err2 # <<>>
Recognized == Failed1 /\ parseInsufficientLamportsError(auto.err1[1]) # <<>>

AtMostOneRetry ==
  /\ auto.opCalls <= 2
  /\ auto.swaps <= 1
  /\ auto.opCalls = 2 => (Recognized /\ auto.swaps = 1 /\ auto.pc \in {"retry", "done"})
  /\ auto.pc = "retry" => auto.opCalls = 2

\* C6: one withAutoSOL call invokes operation() at most twice and executes
\* at most one swap; the second invocation comes only after a recognized
\* shortfall and a successful swap; the call always terminates.
C6_OneSwapOneRetry ==
  /\ []AtMostOneRetry
  /\ InCall ~> (auto.pc = "done")

\* C6: a call that swapped, retried and ended
C6_Witness ==
  /\ auto.pc = "done"
  /\ auto.opCalls = 2
  /\ auto.swaps = 1

\* no swap was executed and operation() was not called again
NeverReplenished ==
  /\ auto.swaps = 0
  /\ auto.opCalls = 1

\* C7: a state-transition violation or an authorization failure of the
\* wrapped operation never makes withAutoSOL swap or call operation() again;
\* it is surfaced to the caller.
C7_StateErrorsNeverRetried ==
  (Failed1 /\ auto.err1[1].kind \in
      {"InvalidState", "AlreadyConfirmed", "AlreadyAccepted", "Unauthorized"})
    => NeverReplenished

\* C8: a shortfall of the primary token (InsufficientDeposit) is surfaced
\* without a swap and without a retry; only a shortfall of lamports
\* triggers them.
C8_TokenShortfallNeverRetried ==
  (Failed1 /\ auto.err1[1].kind = "InsufficientDeposit")
    => (NeverReplenished /\ "swapped" \notin {auto.notified[i] : i \in DOMAIN auto.notified})

\* C9: an error in which no shortfall is recognized is rethrown as it is,
\* with no swap, no onSwap and no second operation().
C9_UnrecognizedRethrown ==
  (Failed1 /\ ~Recognized) =>
    /\ auto.pc = "done"
    /\ auto.thrown = auto.err1
    /\ auto.swaps = 0
    /\ auto.notified = <<>>
    /\ auto.opCalls = 1
    /\ ~auto.returned

\* C9: an unrecognized error came back from the call
C9_Witness ==
  /\ Failed1 /\ ~Recognized
  /\ auto.pc = "done"
  /\ auto.thrown = auto.err1
  /\ auto.err1[1].kind = "Other"

\* C10: when the retried operation() fails, the caller gets the error of
\* that second invocation, whatever its kind, and nothing more is swapped
\* or retried.
C10_SecondErrorSurfaced ==
  Failed2 =>
    /\ auto.pc = "done"
    /\ auto.thrown = auto.err2
    /\ auto.opCalls = 2
    /\ auto.swaps = 1
    /\ ~auto.returned

\* C10: a retry failed with an error other than the first one
C10_Witness ==
  /\ Failed2
  /\ auto.pc = "done"
  /\ auto.err2 # auto.err1
  /\ auto.thrown = auto.err2

\* what replenishSOL throws when the quote asks for more H173K than is held
InsufficientH173K == <<NewError("InsufficientH173K")>>

\* C11: when the reverse quote needs more H173K than the wallet holds,
\* replenishSOL fails with the 'Insufficient H173K' error, which no other
\* branch of replenishSOL throws, before executeSwap is called, and
\* withAutoSOL throws it without calling operation() again.
C11_InsufficientTokenFailsBeforeSwap ==
  /\ auto.pc = "replenish" =>
       \A h173kNeeded \in TokenAmounts, h173kBalance \in TokenAmounts,
          swapError \in {<<>>} \cup {<<e>> : e \in SwapErrors}, messageHit \in BOOLEAN :
         LET r == replenishSOL(auto.deficit[1], MIN_SOL_FOR_SWAP_TX, FALSE,
                               h173kNeeded, h173kBalance, swapError, messageHit)
             a == AfterReplenish(auto, r)
         IN  /\ h173kNeeded > h173kBalance =>
                  /\ r.err = InsufficientH173K
                  /\ r.swaps = 0
                  /\ a.pc = "done"
                  /\ a.thrown = InsufficientH173K
                  /\ a.opCalls = auto.opCalls
                  /\ a.swaps = auto.swaps
             /\ h173kNeeded <= h173kBalance => r.err # InsufficientH173K
  /\ auto.thrown = InsufficientH173K =>
       /\ auto.pc = "done"
       /\ auto.swaps = 0
       /\ auto.opCalls = 1
       /\ ~auto.returned

\* C11: a call ended with the 'Insufficient H173K' error of replenishSOL
C11_Witness ==
  /\ auto.pc = "done"
  /\ auto.thrown = InsufficientH173K
  /\ Recognized
  /\ auto.opCalls = 1

(***************************************************************************)
(* Properties of the replica's entries, checked under Spec.                *)
(***************************************************************************)
TerminalStatuses == {Completed, Burned, Cancelled}

\* w's entry for a carries the terminal flag and a terminal status
FlaggedTerminal(store, w, a) ==
  LET all == loadCachedOffers(store, w)
  IN  /\ a \in DOMAIN all
      /\ Truthy(all[a], "isTerminal")
      /\ "status" \in DOMAIN all[a]
      /\ all[a].status \in TerminalStatuses

\* ... and that status is the one the contract ended with on the ledger
MarkedFinished(store, os, w, a) ==
  /\ FlaggedTerminal(store, w, a)
  /\ a \in DOMAIN os
  /\ loadCachedOffers(store, w)[a].status = parseOfferStatus(AnchorEnum(os[a].status))

\* a successful Cancel, Burn or Confirm that leaves a flagged terminal entry
\* leaves the status the ledger holds
MarksAreFinal ==
  (last'.op \in {"cancelOffer", "burnOffer", "releaseOffer"} /\ last'.err = Ok) =>
    \A w \in Wallets :
      (cache'[w] # cache[w] /\ FlaggedTerminal(cache', w, last'.addr))
        => MarkedFinished(cache', offers', w, last'.addr)

\* no step clears the flag or changes the status of such an entry
FinalStays ==
  \A w \in Wallets :
    \A a \in Addrs :
      MarkedFinished(cache, offers, w, a) =>
        /\ MarkedFinished(cache', offers', w, a)
        /\ cache'[w][a].status = cache[w][a].status

CompletingConfirm ==
  /\ last'.op = "releaseOffer"
  /\ last'.err = Ok
  /\ offers'[last'.addr].buyerConfirmed
  /\ offers'[last'.addr].sellerConfirmed

\* the party whose confirmation the step recorded
LastConfirmer ==
  IF ~offers[last'.addr].buyerConfirmed
    THEN offers[last'.addr].buyer ELSE offers[last'.addr].seller

\* C13: when the second of the two parties of a Locked contract confirms,
\* in either order, the ledger status is Completed and the cache entry of
\* that last confirmer is flagged terminal with status Completed, so that
\* no later fetchAllUserOffers of that party reads the address.
C13_LastConfirmerCachesCompleted ==
  [][CompletingConfirm =>
       LET a == last'.addr
           w == LastConfirmer
           l == [offers |-> offers', buyerIndex |-> buyerIndex', sellerIndex |-> sellerIndex']
       IN  /\ offers'[a].status = "completed"
           /\ FlaggedTerminal(cache', w, a)
           /\ cache'[w][a].status = Completed
           /\ \A buyerFail \in BOOLEAN, sellerFail \in BOOLEAN, failing \in SUBSET DOMAIN offers' :
                a \notin fetchAllUserOffers(l, cache', sellerIndexExistsRef', w,
                                            buyerFail, sellerFail, failing).call.reads]_vars

\* the nonce createOffer reads from w's buyer index, which it creates first
\* when it does not exist
NonceRead(w) == IF buyerIndex[w].exists THEN buyerIndex[w].nextNonce ELSE 0

\* C14: when createOffer succeeds, the buyer's cache holds, at the address
\* derived from the buyer and the nonce read from the buyer's index, a fully
\* populated entry: buyer the caller, seller unset, amount the principal,
\* buyerDeposit twice the principal, sellerDeposit 0, status PendingSeller,
\* both confirmation flags false, not closed, codeHash the digest of the
\* code and that address, nonce the nonce used; the ledger holds the
\* contract under the same address, nonce and digest.
C14_CreateCachesFullEntry ==
  \A w \in Wallets, amount \in Amounts, code \in Codes :
    LET r == createOffer(TheLedger, cache, sellerIndexExistsRef, w, amount, code,
                         FALSE, FALSE, FALSE, FALSE)
        nonce == NonceRead(w)
        a == getOfferPDA(w, nonce)
    IN  r.err = Ok =>
          /\ a \in DOMAIN r.cache[w]
          /\ r.cache[w][a] =
               [publicKey |-> a, buyer |-> w, seller |-> Null, amount |-> amount,
                buyerDeposit |-> 2 * amount, sellerDeposit |-> 0,
                status |-> PendingSeller, buyerConfirmed |-> FALSE,
                sellerConfirmed |-> FALSE, isClosed |-> FALSE,
                codeHash |-> hashCode(code, a), nonce |-> nonce]
          /\ a \in DOMAIN r.ledger.offers
          /\ r.ledger.offers[a].nonce = nonce
          /\ r.ledger.offers[a].codeHash = hashCode(code, a)
          /\ r.ledger.offers[a].buyer = w

\* C14: createOffer has just succeeded and its entry is in the buyer's cache
C14_Witness ==
  /\ last.op = "createOffer"
  /\ last.err = Ok
  /\ last.addr \in DOMAIN offers
  /\ LET w == offers[last.addr].buyer
     IN  /\ last.addr \in DOMAIN cache[w]
         /\ cache[w][last.addr].seller = Null
         /\ cache[w][last.addr].status = PendingSeller
         /\ cache[w][last.addr].buyerDeposit = 2 * cache[w][last.addr].amount

LifecycleOps == {"createOffer", "acceptOffer", "cancelOffer", "releaseOffer", "burnOffer"}

\* a lifecycle call that threw left every cache and every contract as it was
FailedCallWritesNothing ==
  (last'.op \in LifecycleOps /\ last'.err # Ok) =>
    /\ cache' = cache
    /\ offers' = offers

\* acceptOffer with a code that is not the contract's: the call throws, with
\* the ledger's InvalidCode when the accept instruction is what was rejected
WrongCodeRejected ==
  \A w \in Wallets :
    \A a \in DOMAIN offers :
      \A code \in Codes :
        LET r == acceptOffer(TheLedger, cache, sellerIndexExistsRef, w, a, code,
                             FALSE, FALSE, FALSE, FALSE)
        IN  (/\ offers[a].status = "pendingSeller"
             /\ offers[a].buyer # w
             /\ offers[a].codeHash # hashCode(code, a))
              => /\ r.err # Ok
                 \* the accept instruction is reached unless the ref holds
                 \* a stale false and initializeSellerIndex is rejected
                 /\ sellerIndexExistsRef[w] # "false" => r.err = "InvalidCode"
                 /\ r.cache = cache
                 /\ r.ledger.offers = offers

\* C15: createOffer, acceptOffer, cancelOffer, releaseOffer and burnOffer
\* write the cache only after their ledger transaction succeeded; when the
\* ledger rejects the call (acceptOffer with a wrong code: InvalidCode) or
\* the submission fails, the error is thrown and the caller's cache and the
\* contract's status are unchanged.
C15_CacheWrittenAfterLedger ==
  /\ []WrongCodeRejected
  /\ [][FailedCallWritesNothing]_vars

\* C15: acceptOffer has just been rejected for its code; the contract is
\* still PendingSeller and only the buyer holds an entry
C15_Witness ==
  /\ last.op = "acceptOffer"
  /\ last.err = "InvalidCode"
  /\ offers[last.addr].status = "pendingSeller"
  /\ \A w \in Wallets : cache[w] # EmptyObject => w = offers[last.addr].buyer

\* localStorage of a browser the owner has not yet used: no entry for anyone
FreshReplica == [w \in Wallets |-> EmptyObject]

\* after a successful call, w's entry for a is flagged terminal with status
EndsMarked(r, w, a, status) ==
  r.err = Ok =>
    /\ a \in DOMAIN loadCachedOffers(r.cache, w)
    /\ Truthy(loadCachedOffers(r.cache, w)[a], "isTerminal")
    /\ "status" \in DOMAIN loadCachedOffers(r.cache, w)[a]
    /\ loadCachedOffers(r.cache, w)[a].status = status

\* C16: after cancelOffer succeeds the caller's cache holds an entry for the
\* contract with status Cancelled and the terminal flag, and after burnOffer
\* succeeds one with status Burned and the terminal flag, whether the cache
\* held an entry for the address before the call (the browser's replica) or
\* not (a replica without it).
C16_CancelAndBurnLeaveTerminalEntry ==
  \A store \in {cache, FreshReplica} :
    \A w \in Wallets :
      \A a \in DOMAIN offers :
        /\ EndsMarked(cancelOffer(TheLedger, store, sellerIndexExistsRef, w, a, FALSE, FALSE),
                      w, a, Cancelled)
        /\ EndsMarked(burnOffer(TheLedger, store, sellerIndexExistsRef, w, a, FALSE, FALSE),
                      w, a, Burned)

\* the entries of a wallet's cache
Entries(w) == {loadCachedOffers(cache, w)[a] : a \in DOMAIN loadCachedOffers(cache, w)}

HasStatus(e, statuses) == "status" \in DOMAIN e /\ e.status \in statuses

\* C17: in every reachable state, a cache entry whose status is
\* PendingSeller, Locked, BuyerConfirmed or SellerConfirmed records a
\* buyerDeposit of twice its amount, and one whose status is Locked,
\* BuyerConfirmed or SellerConfirmed records a sellerDeposit equal to its
\* amount.
C17_CachedDepositsMatchAmount ==
  \A w \in Wallets :
    \A e \in Entries(w) :
      /\ HasStatus(e, {PendingSeller, Locked, BuyerConfirmed, SellerConfirmed}) =>
           /\ {"amount", "buyerDeposit"} \subseteq DOMAIN e
           /\ e.buyerDeposit = 2 * e.amount
      /\ HasStatus(e, {Locked, BuyerConfirmed, SellerConfirmed}) =>
           /\ {"amount", "sellerDeposit"} \subseteq DOMAIN e
           /\ e.sellerDeposit = e.amount

\* the fields of a contract record
OfferFields ==
  {"publicKey", "buyer", "amount", "buyerDeposit", "sellerDeposit",
   "codeHash", "nonce", "buyerConfirmed", "sellerConfirmed", "status"}

\* C18: every cache entry holds every field of a contract record
\* (publicKey, buyer, amount, both deposits, codeHash, nonce, both
\* confirmation flags, status), whichever operation created it or updated
\* it last.
C18_EntriesAreComplete ==
  \A w \in Wallets :
    \A e \in Entries(w) : OfferFields \subseteq DOMAIN e

\* the step leaves every address that had an entry with an entry
NoEntryRemoved ==
  \A w \in Wallets :
    DOMAIN loadCachedOffers(cache, w) \subseteq DOMAIN loadCachedOffers(cache', w)

\* C19: no operation of the engine removes an entry from an owner's cache,
\* also when the cache write of a lifecycle operation lands while a
\* fetchAllUserOffers call is between its load of the cache and its save.
C19_NoEntryIsRemoved == [][NoEntryRemoved]_vars

\* the entry e carries the fields of the contract the ledger holds at a
CarriesRecord(e, a) ==
  /\ (OfferFields \cup {"seller", "isClosed"}) \subseteq DOMAIN e
  /\ e.publicKey = a
  /\ e.buyer = offers[a].buyer
  /\ e.seller = offers[a].seller
  /\ e.amount = offers[a].amount
  /\ e.buyerDeposit = offers[a].buyerDeposit
  /\ e.sellerDeposit = offers[a].sellerDeposit
  /\ e.status = parseOfferStatus(AnchorEnum(offers[a].status))
  /\ e.nonce = offers[a].nonce
  /\ e.buyerConfirmed = offers[a].buyerConfirmed
  /\ e.sellerConfirmed = offers[a].sellerConfirmed
  /\ e.isClosed = offers[a].isClosed
  /\ e.codeHash = offers[a].codeHash

\* C20: fetchOfferStatus reads the contract from the ledger whatever the
\* caller's cache holds for it; when the read succeeds the caller's entry
\* carries the fields of the fetched record, with the terminal flag when the
\* status read is Completed, Burned or Cancelled; when the read fails the
\* error is thrown and the cache is unchanged.
C20_FetchOneRefreshesEntry ==
  \A w \in Wallets :
    \A a \in Addrs :
      \A fetchFail \in BOOLEAN :
        LET r == fetchOfferStatus(TheLedger, cache, sellerIndexExistsRef, w, a, fetchFail)
        IN  IF fetchFail \/ a \notin DOMAIN offers
              THEN r.err # Ok /\ r.cache = cache
              ELSE /\ r.err = Ok
                   /\ r.ledger = TheLedger
                   /\ a \in DOMAIN loadCachedOffers(r.cache, w)
                   /\ CarriesRecord(loadCachedOffers(r.cache, w)[a], a)
                   /\ offers[a].status \in {"completed", "burned", "cancelled"}
                        => Truthy(loadCachedOffers(r.cache, w)[a], "isTerminal")

\* C20: fetchOfferStatus has just refreshed an entry of a contract that has
\* ended; the entry holds the ledger's record and the terminal flag
C20_Witness ==
  /\ last.op = "fetchOfferStatus"
  /\ last.err = Ok
  /\ \E w \in Wallets :
       /\ FlaggedTerminal(cache, w, last.addr)
       /\ CarriesRecord(cache[w][last.addr], last.addr)

(***************************************************************************)
(* Lookup by code, checked under SpecFind.                                 *)
(***************************************************************************)
\* the pending contracts of the ledger whose digest commits to the code
Matching(code) ==
  {a \in DOMAIN offers :
     offers[a].status = "pendingSeller" /\ offers[a].codeHash = hashCode(code, a)}

\* the places of the matching contracts in an enumeration of the ledger
MatchingAt(order, code) == {i \in DOMAIN order : order[i] \in Matching(code)}

\* C21: findOfferByCode returns a contract only if the ledger holds it as
\* PendingSeller with the digest of (its address, code); the contract it
\* returns is the first such one in the ledger's enumeration order; it
\* returns null exactly when no PendingSeller contract matches.
C21_FindReturnsFirstPendingMatch ==
  \A order \in Orderings(DOMAIN offers), code \in Codes :
    LET r == findOfferByCode(TheLedger, order, code, FALSE)
        at == MatchingAt(order, code)
    IN  /\ r.err = Ok
        /\ r.ret = <<>> <=> Matching(code) = {}
        /\ r.ret # <<>> =>
             /\ r.ret[1] \in Matching(code)
             /\ \E i \in at : order[i] = r.ret[1] /\ \A j \in at : i <= j

\* C21: a lookup returned the second account of the enumeration, the first
\* one carrying the same code but no longer pending
C21_Witness ==
  /\ lookup # <<>>
  /\ Len(lookup[1].order) = 2
  /\ lookup[1].ret = <<lookup[1].order[2]>>
  /\ offers[lookup[1].order[1]].codeHash = hashCode(lookup[1].code, lookup[1].order[1])
  /\ offers[lookup[1].order[1]].status # "pendingSeller"


(***************************************************************************)
(* The pool quotes, checked under SpecSwap.                                *)
(***************************************************************************)
\* amounts around nothing, around half a pool unit, around a pool unit
QuoteInputs ==
  (0..MaxQuoteIn) \cup {s + d : s \in SwapInputs \ {0}, d \in (0 - MaxQuoteIn)..MaxQuoteIn}

\* the pool as it stands on the ledger, seen from either side
PoolSides ==
  {<<swap.token0Vault, swap.token1Vault>>, <<swap.token1Vault, swap.token0Vault>>}

\* q is the whole part of n / d
IsFloorOf(q, n, d) == q * d <= n /\ n < (q + 1) * d

\* out is what the constant-product formula gives for amountIn, the fee
\* taken from the input side
IsQuoteOf(out, amountIn, reserveIn, reserveOut, feeBps) ==
  \E fee \in 0..amountIn :
    /\ IsFloorOf(fee, amountIn * feeBps, 10000)
    /\ IsFloorOf(out, reserveOut * (amountIn - fee), reserveIn + (amountIn - fee))

\* C22: for non-negative amountIn, reserveOut, reserveIn > 0 and feeBps in
\* 0..10000, calculateOutput returns floor(reserveOut * a / (reserveIn + a))
\* with a = amountIn - floor(amountIn * feeBps / 10000), in exact integers;
\* checked against the pool as it stands, from either side and with the
\* output side empty, and on every quote of an input >= 0 the hook holds
\* (pool fee 25 bps).
C22_CalculateOutputIsFloorQuote ==
  /\ \A side \in PoolSides \cup {<<swap.token0Vault, 0>>}, amountIn \in QuoteInputs, feeBps \in FeeRates :
       IsQuoteOf(calculateOutput(amountIn, side[1], side[2], feeBps), amountIn, side[1], side[2], feeBps)
  /\ \A i \in DOMAIN swap.quote :
       LET q == swap.quote[i]
       IN  IF q.inputLamports < 0 THEN TRUE
           ELSE IF q.kind = "H173KtoSOL"
             THEN IsQuoteOf(q.outputLamports, q.inputLamports, reserveH173K(q.pool), reserveSOL(q.pool), 25)
             ELSE IsQuoteOf(q.outputLamports, q.inputLamports, reserveSOL(q.pool), reserveH173K(q.pool), 25)

\* C22: the hook quoted an input large enough to pay a fee, and the quotient
\* of the formula was not a whole number
C22_Witness ==
  /\ swap.ret.op = "getSwapQuote"
  /\ swap.quote # <<>>
  /\ swap.quote[1].inputLamports * 25 >= 10000
  /\ swap.quote[1].outputLamports > 0
  /\ \A fee \in 0..swap.quote[1].inputLamports :
       LET a == swap.quote[1].inputLamports - fee
       IN  swap.quote[1].outputLamports * (reserveH173K(swap.quote[1].pool) + a) # reserveSOL(swap.quote[1].pool) * a

\* C23 as the specification words it: for fixed positive reserves and fee
\* the quoted output is strictly increasing in the input.
C23_OutputStrictlyIncreasing ==
  \A side \in PoolSides, feeBps \in FeeRates, a1, a2 \in QuoteInputs :
    a1 < a2 => calculateOutput(a1, side[1], side[2], feeBps) < calculateOutput(a2, side[1], side[2], feeBps)

\* C23, amended: for fixed positive reserves and fee the quoted output never
\* decreases when the input grows.
C23_OutputNonDecreasing ==
  \A side \in PoolSides, feeBps \in FeeRates, a1, a2 \in QuoteInputs :
    a1 < a2 => calculateOutput(a1, side[1], side[2], feeBps) <= calculateOutput(a2, side[1], side[2], feeBps)

\* C23: the hook quoted an input against the pool as it stands; a smaller
\* input gives less, and another smaller input gives the same
C23_Witness ==
  /\ swap.ret.op = "getSwapQuoteSOLtoH173K"
  /\ swap.quote # <<>>
  /\ swap.quote[1].pool.token0Reserve = swap.token0Vault
  /\ swap.quote[1].pool.token1Reserve = swap.token1Vault
  /\ \E a1, a2 \in QuoteInputs :
       /\ a1 < a2 /\ a2 < swap.quote[1].inputLamports
       /\ calculateOutput(a1, swap.token1Vault, swap.token0Vault, 25) < swap.quote[1].outputLamports
       /\ calculateOutput(a2, swap.token1Vault, swap.token0Vault, 25) = swap.quote[1].outputLamports

\* C24: for every target with 0 < target < reserveOut, the input of the
\* reverse quote (the inverse of the formula plus the 0.25% margin), fed to
\* the forward quote with the same reserves and the pool fee, gives an output
\* never below the target and above it by no more than the margin.
C24_ReverseQuoteCoversTarget ==
  \A targetLamports \in 1..(swap.token1Vault - 1) :
    LET raw == h173kNeededRaw(targetLamports, swap.token0Vault, swap.token1Vault)
        out == calculateOutput(raw, swap.token0Vault, swap.token1Vault, 25)
    IN  /\ out >= targetLamports
        /\ out * 10000 <= targetLamports * 10025

QuoteOps == {"getSwapQuote", "getSwapQuoteSOLtoH173K", "calculateSwapForSOL"}

\* C25: every quote is computed from the pool reserves as they are on the
\* ledger during that call; reserves fetched by an earlier call are never
\* reused.
C25_QuotesUseFreshReserves ==
  [][swap'.ret.op \in QuoteOps =>
       \A p \in swap'.ret.pools :
         p.token0Reserve = swap.token0Vault /\ p.token1Reserve = swap.token1Vault]_vars


(***************************************************************************)
(* The list of one's contracts, checked under Spec.                        *)
(***************************************************************************)
\* C26: when the owner's cache is empty and the ledger is unavailable (every
\* read of the call fails), fetchAllUserOffers surfaces the failure as an
\* error instead of returning an empty list.
C26_ColdCacheSurfacesFailure ==
  \A w \in Wallets :
    loadCachedOffers(cache, w) = EmptyObject =>
      LET r == fetchAllUserOffers(TheLedger, cache, sellerIndexExistsRef, w, TRUE, TRUE, DOMAIN offers)
      IN  r.err # Ok


(***************************************************************************)
(* The session signer, checked under SpecSigner.                           *)
(***************************************************************************)
\* every call of a signing method on the signer as it is
SigningCalls(s) ==
  {getKeypair(s)}
    \cup {signTransaction(s, tx) : tx \in Txs}
    \cup {signAllTransactions(s, txs) : txs \in SUBSET Txs}
    \cup {signMessage(s, m) : m \in Txs}

\* while locked, the four methods throw 'Wallet is locked', sign nothing and
\* leave the signer as it was; whenever the flag is down there is no keypair
LockedSignerRefuses ==
  /\ ~session.wallet.unlocked => session.wallet.keypair = NoKeypair
  /\ ~isUnlocked(session.wallet) =>
       \A r \in SigningCalls(session.wallet) :
         r.err = "Wallet is locked" /\ r.signatures = {} /\ r.wallet = session.wallet

\* a lock, explicit or by the timer, leaves no keypair; a locked signer is
\* opened only by an unlock that succeeds, with the password of the stored
\* seed; a failed unlock changes nothing of the signer
LockHolds ==
  /\ session'.ret.op \in {"lock", "autoLock"} =>
       session'.wallet.keypair = NoKeypair /\ ~isUnlocked(session'.wallet)
  /\ ~isUnlocked(session.wallet) /\ isUnlocked(session'.wallet) =>
       /\ session'.ret.op \in {"unlock", "createWallet"}
       /\ session'.ret.err = Ok
       /\ session'.seed # <<>>
       /\ session'.seed[1].password = session'.ret.arg
       /\ session'.wallet.keypair = deriveKeypairFromMnemonic(session'.seed[1].mnemonic)
  /\ session'.ret.op = "unlock" /\ session'.ret.err # Ok =>
       session'.wallet = session.wallet /\ session'.seed = session.seed

\* C27: while the session signer is locked, signTransaction,
\* signAllTransactions, signMessage and getKeypair fail at once with 'Wallet
\* is locked' and sign nothing; after lock(), explicit or by the auto-lock
\* timer, the signer holds no keypair and stays locked until an unlock with
\* the correct password succeeds; a failed unlock leaves the signer's state
\* unchanged.
C27_LockedSignerSignsNothing ==
  /\ []LockedSignerRefuses
  /\ [][LockHolds]_vars

\* C27: a wallet was created (which unlocks the signer), the signer was
\* locked, and a signTransaction on it has just been refused
C27_Witness ==
  /\ session.ret.op = "signTransaction"
  /\ session.ret.err = "Wallet is locked"
  /\ session.ret.signatures = {}
  /\ session.seed # <<>>
  /\ session.wallet.keypair = NoKeypair


\* C28: after a successful releaseOffer the caller's entry has the caller's
\* flag set and the other party's flag as the cache had it; its status is
\* Completed, flagged terminal, when the cache already had the other party's
\* flag set, and otherwise BuyerConfirmed for the buyer, SellerConfirmed for
\* the seller, whatever the ledger record fetched at the start says.
C28_ConfirmInfersFromCache ==
  \A w \in Wallets :
    \A a \in DOMAIN offers :
      LET r == releaseOffer(TheLedger, cache, sellerIndexExistsRef, w, a, FALSE, FALSE)
          all == loadCachedOffers(cache, w)
          before == IF a \in DOMAIN all THEN all[a] ELSE EmptyObject
          after == loadCachedOffers(r.cache, w)[a]
          mine == IF offers[a].buyer = w THEN "buyerConfirmed" ELSE "sellerConfirmed"
          other == IF offers[a].buyer = w THEN "sellerConfirmed" ELSE "buyerConfirmed"
      IN  r.err = Ok =>
            /\ a \in DOMAIN loadCachedOffers(r.cache, w)
            /\ Truthy(after, mine)
            /\ other \in DOMAIN after <=> other \in DOMAIN before
            /\ other \in DOMAIN before => after[other] = before[other]
            /\ IF Truthy(before, other)
                 THEN after.status = Completed /\ Truthy(after, "isTerminal")
                 ELSE after.status = (IF offers[a].buyer = w THEN BuyerConfirmed ELSE SellerConfirmed)

\* C28: a confirm has just completed a contract, and the caller's entry,
\* which already held the other party's flag, is Completed and terminal
C28_Witness ==
  /\ last.op = "releaseOffer"
  /\ last.err = Ok
  /\ offers[last.addr].status = "completed"
  /\ \E w \in Wallets :
       /\ last.addr \in DOMAIN loadCachedOffers(cache, w)
       /\ LET e == loadCachedOffers(cache, w)[last.addr]
          IN  /\ Truthy(e, "buyerConfirmed") /\ Truthy(e, "sellerConfirmed")
              /\ "status" \in DOMAIN e /\ e.status = Completed
              /\ Truthy(e, "isTerminal")


\* the owner's cached contracts that are in neither of the owner's indexes on
\* the ledger and are not flagged terminal
LeftTheIndexes(w) ==
  {a \in DOMAIN loadCachedOffers(cache, w) :
     /\ BelongsTo(loadCachedOffers(cache, w)[a], w)
     /\ a \notin buyerIndex[w].activeOffers \cup sellerIndex[w].activeOffers
     /\ ~Truthy(loadCachedOffers(cache, w)[a], "isTerminal")}

\* C29: fetchAllUserOffers fetches each cached contract of the owner that is
\* in neither index and not flagged terminal once; when that fetch fails the
\* call still succeeds and returns the contract from the cache, its entry
\* flagged terminal with status Completed when both cached flags are set and
\* the last known status otherwise, and a later call does not fetch the
\* address again.
C29_VerifiedOnceThenTerminal ==
  \A w \in Wallets :
    \A a \in LeftTheIndexes(w) :
      \A buyerFail, sellerFail \in BOOLEAN :
        LET before == loadCachedOffers(cache, w)[a]
            ok == fetchAllUserOffers(TheLedger, cache, sellerIndexExistsRef, w, buyerFail, sellerFail, {})
            r == fetchAllUserOffers(TheLedger, cache, sellerIndexExistsRef, w, buyerFail, sellerFail, {a})
            after == loadCachedOffers(r.cache, w)[a]
        IN  /\ a \in ok.call.reads /\ a \in r.call.reads
            /\ r.err = Ok
            /\ a \in r.ret /\ a \in r.retCache
            /\ Truthy(after, "isTerminal")
            /\ IF Truthy(before, "buyerConfirmed") /\ Truthy(before, "sellerConfirmed")
                 THEN after.status = Completed
                 ELSE \/ "status" \notin DOMAIN before /\ "status" \notin DOMAIN after
                      \/ "status" \in DOMAIN before /\ "status" \in DOMAIN after /\ after.status = before.status
            /\ \A bf, sf \in BOOLEAN :
                 a \notin fetchAllUserOffers(TheLedger, r.cache, r.ref, w, bf, sf, {}).call.reads


\* sent holds the initialize instruction once, before anything else, when
\* the index is missing on the ledger, and not at all when it exists
InitializesWhenMissing(sent, initialize, exists) ==
  LET at == {i \in DOMAIN sent : sent[i] = initialize}
  IN  /\ Cardinality(at) <= 1
      /\ at # {} <=> ~exists
      /\ \A i \in at : i = 1

\* C30: createOffer submits initializeBuyerIndex exactly when the caller's
\* buyer index does not exist on the ledger, at most once and before the
\* createOffer instruction; acceptOffer does the same with the seller index;
\* when the index exists no initialize instruction is submitted.  The calls
\* are those whose first fetch (the offer, for acceptOffer) succeeds.
C30_InitializeOnlyWhenIndexMissing ==
  \A w \in Wallets :
    \A idxFail, initFail \in BOOLEAN :
      /\ InitializesWhenMissing(createOfferSends(TheLedger, w, idxFail, initFail, FALSE),
                                "initializeBuyerIndex", buyerIndex[w].exists)
      /\ \A a \in DOMAIN offers :
           InitializesWhenMissing(
             acceptOfferSends(TheLedger, sellerIndexExistsRef, w, a, FALSE, idxFail, initFail),
             "initializeSellerIndex", sellerIndex[w].exists)


\* C31: in every reachable cache state an entry flagged terminal has a
\* terminal status: isTerminal implies status Completed, Burned or Cancelled.
C31_TerminalFlagMeansTerminalStatus ==
  \A w \in Wallets :
    \A a \in DOMAIN loadCachedOffers(cache, w) :
      LET e == loadCachedOffers(cache, w)[a]
      IN  Truthy(e, "isTerminal") =>
            "status" \in DOMAIN e /\ e.status \in {Completed, Burned, Cancelled}


\* C32: every contract the owner's cache holds with the owner as buyer or
\* seller before a fetchAllUserOffers call is in the call's result, also when
\* its address is listed in an index and its fresh fetch fails during the
\* call.  The calls are those that return.
C32_CachedContractsAreReturned ==
  \A w \in Wallets :
    \A buyerFail, sellerFail \in BOOLEAN :
      \A failing \in SUBSET DOMAIN offers :
        LET r == fetchAllUserOffers(TheLedger, cache, sellerIndexExistsRef, w, buyerFail, sellerFail, failing)
        IN  r.err = Ok =>
              \A a \in DOMAIN loadCachedOffers(cache, w) :
                BelongsTo(loadCachedOffers(cache, w)[a], w) => a \in r.ret


\* C33: when no ledger read of a fetchAllUserOffers call fails and the
\* owner's seller index exists on the ledger, the call fetches and returns
\* every address that index lists, whatever earlier seller-index reads of the
\* session have left behind.
C33_SellerIndexIsAlwaysListed ==
  \A w \in Wallets :
    sellerIndex[w].exists =>
      LET r == fetchAllUserOffers(TheLedger, cache, sellerIndexExistsRef, w, FALSE, FALSE, {})
      IN  \A a \in sellerIndex[w].activeOffers :
            /\ r.err = Ok
            /\ a \in r.call.reads
            /\ a \in r.ret /\ a \notin r.retCache


\* the device's store with the entries of every owner but w erased
OnlyOwner(store, w) == [b \in Wallets |-> IF b = w THEN store[b] ELSE EmptyObject]

\* a call r of owner w leaves the entries of the other owners as they are, and
\* the same call q on the store own, without their entries, has the same
\* outcome: the same result but for the other owners' part of the store
ScopedTo(w, own, r, q) ==
  \A rr \in {r} :
    /\ \A b \in Wallets \ {w} : rr.cache[b] = cache[b]
    /\ own # cache => \A qq \in {q} : qq.cache[w] = rr.cache[w] /\ [qq EXCEPT !.cache = rr.cache] = rr

\* the failures a call can meet: a step that is not reached has no outcome
Reached(fetchFail, idxFail, initFail, txFail) ==
  /\ fetchFail => ~idxFail /\ ~initFail /\ ~txFail
  /\ initFail => ~txFail

CacheOpsScoped(w, own) ==
  \A a \in DOMAIN offers \cup {getOfferPDA(w, 0)} :
    /\ loadCachedOffers(own, w) = loadCachedOffers(cache, w)
    /\ \A b \in Wallets \ {w} :
         /\ saveCachedOffers(cache, w, EmptyObject)[b] = cache[b]
         /\ \A status \in TerminalStatuses :
              /\ updateCachedOffer(cache, w, a, [status |-> status])[b] = cache[b]
              /\ markOfferTerminal(cache, w, a, status)[b] = cache[b]

EngineOpsScoped(w, own) ==
  /\ \A amount \in Amounts, code \in Codes, idxFail, initFail, nonceFail, txFail \in BOOLEAN :
       ScopedTo(w, own, createOffer(TheLedger, cache, sellerIndexExistsRef, w, amount, code, idxFail, initFail, nonceFail, txFail),
                   createOffer(TheLedger, own, sellerIndexExistsRef, w, amount, code, idxFail, initFail, nonceFail, txFail))
  /\ \A a \in DOMAIN offers, fetchFail, txFail \in BOOLEAN :
       /\ \A code \in Codes, idxFail, initFail \in BOOLEAN :
            Reached(fetchFail, idxFail, initFail, txFail) =>
            ScopedTo(w, own, acceptOffer(TheLedger, cache, sellerIndexExistsRef, w, a, code, fetchFail, idxFail, initFail, txFail),
                        acceptOffer(TheLedger, own, sellerIndexExistsRef, w, a, code, fetchFail, idxFail, initFail, txFail))
       /\ Reached(fetchFail, FALSE, FALSE, txFail) =>
          ScopedTo(w, own, cancelOffer(TheLedger, cache, sellerIndexExistsRef, w, a, fetchFail, txFail),
                      cancelOffer(TheLedger, own, sellerIndexExistsRef, w, a, fetchFail, txFail))
       /\ Reached(fetchFail, FALSE, FALSE, txFail) =>
          ScopedTo(w, own, releaseOffer(TheLedger, cache, sellerIndexExistsRef, w, a, fetchFail, txFail),
                      releaseOffer(TheLedger, own, sellerIndexExistsRef, w, a, fetchFail, txFail))
       /\ Reached(fetchFail, FALSE, FALSE, txFail) =>
          ScopedTo(w, own, burnOffer(TheLedger, cache, sellerIndexExistsRef, w, a, fetchFail, txFail),
                      burnOffer(TheLedger, own, sellerIndexExistsRef, w, a, fetchFail, txFail))
       /\ ScopedTo(w, own, fetchOfferStatus(TheLedger, cache, sellerIndexExistsRef, w, a, fetchFail),
                      fetchOfferStatus(TheLedger, own, sellerIndexExistsRef, w, a, fetchFail))
  /\ \A code \in Codes, forceBlockchainCheck, allFail \in BOOLEAN :
       ScopedTo(w, own, readOfferByCode(TheLedger, cache, sellerIndexExistsRef, w, code, forceBlockchainCheck, allFail),
                   readOfferByCode(TheLedger, own, sellerIndexExistsRef, w, code, forceBlockchainCheck, allFail))
  /\ \A buyerFail, sellerFail \in BOOLEAN, failing \in SUBSET DOMAIN offers :
       ScopedTo(w, own, fetchAllUserOffers(TheLedger, cache, sellerIndexExistsRef, w, buyerFail, sellerFail, failing),
                        fetchAllUserOffers(TheLedger, own, sellerIndexExistsRef, w, buyerFail, sellerFail, failing))

\* C34: every cache function and every engine operation run for owner w
\* leaves the cached entries of every other owner of the device unchanged and
\* has the outcome it has on a store that holds only w's entries.
C34_CacheScopedPerOwner ==
  \A w \in Wallets : CacheOpsScoped(w, OnlyOwner(cache, w)) /\ EngineOpsScoped(w, OnlyOwner(cache, w))

\* B's release has flagged B's entry terminal while A's entry of the same
\* contract on the same device is still open
C34_Witness ==
  /\ last.op = "releaseOffer" /\ last.err = Ok
  /\ \E a \in DOMAIN cache["A"] \cap DOMAIN cache["B"] :
       Truthy(cache["A"][a], "isTerminal") # Truthy(cache["B"][a], "isTerminal")


\* C35: withAutoSOL has submitted a swap only when the classification of the
\* first failure gave a strictly positive deficit, need > have, whichever
\* pattern of parseInsufficientLamportsError accepted the error text.
C35_SwapOnlyForPositiveDeficit ==
  auto.swaps > 0 =>
    /\ auto.parsed # <<>>
    /\ auto.parsed[1].need > auto.parsed[1].have


\* C36: for every input >= 0, positive reserves and fee of 0..10000 bps the
\* quoted output is >= 0 and strictly below the output reserve, and is 0 for
\* an input of 0; so is every quote of an input >= 0 the hook holds, against
\* the pool snapshot it was computed with.
C36_OutputBelowReserve ==
  /\ \A side \in PoolSides, amountIn \in QuoteInputs, feeBps \in FeeRates :
       LET out == calculateOutput(amountIn, side[1], side[2], feeBps)
       IN  /\ 0 <= out /\ out < side[2]
           /\ amountIn = 0 => out = 0
  /\ \A i \in DOMAIN swap.quote :
       LET q == swap.quote[i]
       IN  q.inputLamports >= 0 =>
             /\ 0 <= q.outputLamports
             /\ q.outputLamports < (IF q.kind = "H173KtoSOL" THEN reserveSOL(q.pool) ELSE reserveH173K(q.pool))
             /\ q.inputLamports = 0 => q.outputLamports = 0

\* C36: the hook quoted an input far above the input reserve, and the quote
\* pays out all of the output reserve but one unit
C36_Witness ==
  /\ swap.ret.op = "getSwapQuote"
  /\ swap.quote # <<>>
  /\ swap.quote[1].inputLamports > reserveH173K(swap.quote[1].pool)
  /\ swap.quote[1].outputLamports + 1 = reserveSOL(swap.quote[1].pool)



\* the pool a reverse quote of the hook computes with when no read fails
PoolOfReverseQuote == PoolOfCall(swap, FALSE).ret[1]

\* targets at and above the SOL reserve of that pool
TargetsNotBelowReserve == {reserveSOL(PoolOfReverseQuote) + s : s \in SwapInputs}

\* C37: for a target at or above the pool's SOL reserve calculateSwapForSOL
\* fails with an error and returns no required input, zero or negative; a
\* checkAutoReplenish whose reverse quote ends as it ends for such a target
\* reports canReplenish = false.
C37_TargetNotBelowReserveFails ==
  \A targetLamports \in TargetsNotBelowReserve, roundsDown \in BOOLEAN :
    LET r == calculateSwapForSOL(swap, targetLamports, roundsDown, FALSE, FALSE)
        h173kNeeded == IF r.err = Ok THEN r.ret[1].inputLamports ELSE 0
    IN  /\ r.err # Ok
        /\ r.ret = <<>>
        /\ \A currentH173K \in {0, PoolUnit} :
             ~checkAutoReplenish(MIN_SOL_FOR_SWAP, currentH173K, 2 * MIN_SOL_FOR_SWAP, r.err # Ok, h173kNeeded).canReplenish



(***************************************************************************)
(* The PIN lockout, checked under SpecPin.                                 *)
(***************************************************************************)
\* the lockout is running: its end is stored and not yet reached
LockoutRuns(p) == p.lockoutUntil # <<>> /\ p.now < p.lockoutUntil[1]

\* the failures in a row so far; a lockout that has expired ended the row
FailedInARow(p) ==
  IF p.lockoutUntil # <<>> /\ p.now >= p.lockoutUntil[1] THEN 0 ELSE getFailedAttempts(p)

PinIsRight(p, pin) == p.pinHash # <<>> /\ p.pinHash[1] = hashPIN(pin)

\* the PINs that can be wrong: any, once a PIN is set up
TypedPins == IF pinAuth.pinHash = <<>> THEN {} ELSE Pins

\* those of them that verifyPIN compares with the stored one: 4 to 8
\* characters
ComparedPins == {pin \in TypedPins : Len(pin) >= 4 /\ Len(pin) <= 8}

\* A lockout lasts 5 minutes at most and there are at most 4 failures in a
\* row outside it.  While it runs every verifyPIN fails with 'Too many
\* attempts', the right PIN too, and changes nothing.  Outside it the right
\* PIN succeeds and leaves the counter at zero and no lockout, and a failed
\* verification with a PIN of the set counted adds one to the failures in a
\* row; the 5th starts a lockout of 5 minutes and fails with 'Too many
\* attempts', an earlier one starts none.
LockoutRule(counted) ==
  /\ ~LockoutRuns(pinAuth) => FailedInARow(pinAuth) < MAX_FAILED_ATTEMPTS
  /\ LockoutRuns(pinAuth) => pinAuth.lockoutUntil[1] <= pinAuth.now + LOCKOUT_DURATION_MS
  /\ \A pin \in Pins :
       LET r == verifyPIN(pinAuth, pin)
       IN  /\ LockoutRuns(pinAuth) => r.err = TooManyAttempts /\ r.auth = pinAuth
           /\ ~LockoutRuns(pinAuth) /\ PinIsRight(pinAuth, pin) => r.err = Ok
           /\ r.err = Ok =>
                /\ ~LockoutRuns(pinAuth) /\ PinIsRight(pinAuth, pin)
                /\ getFailedAttempts(r.auth) = 0 /\ r.auth.lockoutUntil = <<>>
           /\ ~LockoutRuns(pinAuth) /\ r.err # Ok /\ pin \in counted =>
                /\ getFailedAttempts(r.auth) = FailedInARow(pinAuth) + 1
                /\ IF FailedInARow(pinAuth) + 1 = MAX_FAILED_ATTEMPTS
                     THEN /\ r.err = TooManyAttempts
                          /\ r.auth.lockoutUntil = <<pinAuth.now + LOCKOUT_DURATION_MS>>
                     ELSE /\ r.err # TooManyAttempts
                          /\ r.auth.lockoutUntil = <<>>

\* C38 as stated: verifyPIN tolerates at most 4 wrong PINs in a row; the 5th
\* failed verification in a row starts a 5-minute lockout during which every
\* verifyPIN fails with 'Too many attempts', the right PIN too, without
\* changing the counter; a success before the lockout resets the counter to
\* zero, and after the lockout expires the count starts again from zero.
\* Every verification that fails outside a lockout while a PIN is set up
\* counts.
C38_EveryFailedVerificationCounts == LockoutRule(TypedPins)

\* C38, amended: the same, the failed verifications that count being those
\* of a PIN of 4 to 8 characters.
C38_FifthWrongPinStartsLockout == LockoutRule(ComparedPins)

\* C38: four wrong PINs, a fifth, a minute or more, and the right PIN has
\* just been refused with 'Too many attempts' while the lockout runs
C38_Witness ==
  /\ pinAuth.ret.op = "verifyPIN"
  /\ pinAuth.ret.err = TooManyAttempts
  /\ PinIsRight(pinAuth, pinAuth.ret.arg)
  /\ LockoutRuns(pinAuth)
  /\ getFailedAttempts(pinAuth) = MAX_FAILED_ATTEMPTS
  /\ pinAuth.now + LOCKOUT_DURATION_MS > pinAuth.lockoutUntil[1]

====
